---- MODULE Spec2Model ----
(***************************************************************************)
(* A model of the Frscript language extension's static analysis engine:   *)
(* parseSymbols, inferType, inferReturnType and validateDocument, and the  *)
(* editor events that run them.                                            *)
(*                                                                         *)
(* Text is modelled as text: a document is a sequence of lines, a line is  *)
(* a string, and every regular expression of the source is translated to   *)
(* an operator that scans the characters of the string the way the         *)
(* expression does.  Documents have the language id 'frscript'.  Line      *)
(* numbers are 0-based as in the source; Line(doc, i) is line i.           *)
(* Diagnostics carry their line, severity, code, message template, the     *)
(* name the message is about and their tags; column ranges are not kept.   *)
(***************************************************************************)
EXTENDS Integers, Sequences, FiniteSets, TLC

VARIABLES
    document,             \* the lines of the open text document (<<>>: none open)
    diagnosticCollection, \* the diagnostics published for the document's uri
    outcome,              \* how the last validation ended: none | published | threw
    timeout,              \* whether the timer of the debounced validation is armed
    importCache,          \* importCache's entry for the document's uri (<<>>: none)
    value,                \* the expression last handed to the type inference
    context,              \* the symbol context it was handed with
    inferred,             \* what the inference returned for it
    types,                \* the module's array types, which every parse reads
    returned,             \* the calls of getSymbols so far: the text and the result of each
    symbolCache,          \* symbolCache's entry for the document's uri (<<>>: none)
    lookup,               \* the last cache lookup: the cache, the text by then, the entry
    burst,                \* the change events and validator runs since the timer last fired
    textDocuments,        \* the lines of each document of the workspace (<<>>: not open)
    diagnosticsByUri,     \* diagnosticCollection: the diagnostics published for each uri
    importCacheByUri,     \* importCache: the entry of each uri (<<>>: none)
    timeoutArgs,          \* the document the armed timer of debounce was called with (<<>>: not armed)
    pythonCall            \* the Python introspection call in flight

vars == <<document, diagnosticCollection, outcome, timeout, importCache,
         value, context, inferred, types, returned, symbolCache, lookup, burst,
         textDocuments, diagnosticsByUri, importCacheByUri, timeoutArgs, pythonCall>>

\* The state the single-document specifications follow
singleVars == <<document, diagnosticCollection, outcome, timeout, importCache,
               value, context, inferred, types, returned, symbolCache, lookup, burst>>

\* The state of the workspace of several documents
workspaceVars == <<textDocuments, diagnosticsByUri, importCacheByUri, timeoutArgs>>

\* What the event handlers leave alone
callVars == <<value, context, inferred, types, returned, lookup, workspaceVars, pythonCall>>

\* What a call of one of the analysis functions leaves alone
eventVars == <<document, diagnosticCollection, timeout, importCache, symbolCache, burst,
              workspaceVars, pythonCall>>

\* The uris of the workspace's documents
Uris == {"a.fr", "b.fr"}

\* No introspection call has been made.  python and pythonFallback are the
\* two subprocesses (none | running | killed | closed), timer and
\* fallbackTimer whether the setTimeout behind each is pending, resolved the
\* value the promise was resolved with (<<>>: pending), events what happened
\* to the call so far, in order.
NoCall == [kind |-> "none", venv |-> FALSE, python |-> "none", pythonFallback |-> "none",
           timer |-> FALSE, fallbackTimer |-> FALSE, resolved |-> <<>>, events |-> <<>>]

\* No document of the workspace is open, no timer is armed, no call in flight
InitWorkspace ==
    /\ textDocuments = [uri \in Uris |-> <<>>]
    /\ diagnosticsByUri = [uri \in Uris |-> <<>>]
    /\ importCacheByUri = [uri \in Uris |-> <<>>]
    /\ timeoutArgs = <<>>
    /\ pythonCall = NoCall

(***************************************************************************)
(* Characters and strings (JavaScript's String methods and regex classes). *)
(***************************************************************************)
null == ""

\* LET x == e IN F(x), with e written once
With(e, F(_)) == F(e)

\* a || b for two strings ("" is falsy)
OrElse(a, b) == IF a # null THEN a ELSE b

Ch(s, i) == IF i >= 1 /\ i <= Len(s) THEN SubSeq(s, i, i) ELSE ""

Digits == {"0", "1", "2", "3", "4", "5", "6", "7", "8", "9"}

UpperCase == {"A", "B", "C", "D", "E", "F", "G", "H", "I", "J", "K", "L", "M",
              "N", "O", "P", "Q", "R", "S", "T", "U", "V", "W", "X", "Y", "Z"}

LowerCase == {"a", "b", "c", "d", "e", "f", "g", "h", "i", "j", "k", "l", "m",
              "n", "o", "p", "q", "r", "s", "t", "u", "v", "w", "x", "y", "z"}

\* \w
WordChars == LowerCase \cup UpperCase \cup Digits \cup {"_"}

\* \s
SpaceChars == {" ", "\t", "\n", "\r"}

\* The first index j >= i of s whose character is not in set (Len(s) + 1 if none):
\* where a greedy  [set]*  that starts at i stops.
RECURSIVE Span(_, _, _)
Span(s, i, set) ==
    IF i > Len(s) \/ Ch(s, i) \notin set THEN i ELSE Span(s, i + 1, set)

\* The first index j >= i of s whose character is in set (Len(s) + 1 if none):
\* where a greedy  [^set]*  that starts at i stops.
RECURSIVE SpanNot(_, _, _)
SpanNot(s, i, set) ==
    IF i > Len(s) \/ Ch(s, i) \in set THEN i ELSE SpanNot(s, i + 1, set)

\* The pieces of a regular expression:  [set]*  [^set]*  [set]+  [set]  [set]?
Star(set) == [q |-> "*", in |-> TRUE, set |-> set]
StarNot(set) == [q |-> "*", in |-> FALSE, set |-> set]
Plus(set) == [q |-> "+", in |-> TRUE, set |-> set]
One(set) == [q |-> "1", in |-> TRUE, set |-> set]
Opt(set) == [q |-> "?", in |-> TRUE, set |-> set]

\* Where a piece that starts at i stops, given that its greedy run stops at j;
\* 0 when the piece does not match.
PieceEnd(i, j, q) ==
    IF q = "*" THEN j
    ELSE IF q = "?" THEN (IF j > i THEN i + 1 ELSE i)
    ELSE IF j = i THEN 0
    ELSE IF q = "+" THEN j
    ELSE i + 1

ScanPiece(s, i, piece) ==
    IF i = 0 THEN 0
    ELSE PieceEnd(i, IF piece.in THEN Span(s, i, piece.set)
                     ELSE SpanNot(s, i, piece.set), piece.q)

\* Matching a sequence of pieces against s from index i: the index where each
\* piece stops (the next one starts there), 0 from the first piece that fails.
\* No regular expression of the source needs a piece to give characters back.
RECURSIVE Scan(_, _, _)
ScanFrom(s, j, pieces) == <<j>> \o Scan(s, j, pieces)
Scan(s, i, pieces) ==
    IF pieces = <<>> THEN <<>>
    ELSE ScanFrom(s, ScanPiece(s, i, Head(pieces)), Tail(pieces))

\* Whether the scan p matched, and the text its k-th piece (k > 1) matched
Matched(p) == p[Len(p)] > 0
Group(s, p, k) == SubSeq(s, p[k - 1], p[k] - 1)

From(s, i) == SubSeq(s, i, Len(s))

startsWithAt(s, p, i) == i + Len(p) - 1 <= Len(s) /\ SubSeq(s, i, i + Len(p) - 1) = p

startsWith(s, p) == startsWithAt(s, p, 1)

endsWith(s, p) == Len(p) <= Len(s) /\ SubSeq(s, Len(s) - Len(p) + 1, Len(s)) = p

\* String.prototype.indexOf, 1-based; 0 when p does not occur at or after from.
RECURSIVE indexOfFrom(_, _, _)
indexOfFrom(s, p, from) ==
    IF from + Len(p) - 1 > Len(s) THEN 0
    ELSE IF startsWithAt(s, p, from) THEN from
    ELSE indexOfFrom(s, p, from + 1)

includes(s, p) == indexOfFrom(s, p, 1) > 0

\* Whether s holds one of the strings of ps
includesAny(s, ps) == \E p \in ps : includes(s, p)

RECURSIVE LastNonSpace(_, _)
LastNonSpace(s, j) ==
    IF j < 1 \/ Ch(s, j) \notin SpaceChars THEN j ELSE LastNonSpace(s, j - 1)

trim(s) == SubSeq(s, Span(s, 1, SpaceChars), LastNonSpace(s, Len(s)))

\* String.prototype.split on a set of one-character separators.
RECURSIVE split(_, _)
splitAt(s, seps, j) ==
    IF j > Len(s) THEN <<s>>
    ELSE <<SubSeq(s, 1, j - 1)>> \o split(From(s, j + 1), seps)
split(s, seps) == splitAt(s, seps, SpanNot(s, 1, seps))

RECURSIVE Flatten(_)
Flatten(ss) == IF ss = <<>> THEN <<>> ELSE Head(ss) \o Flatten(Tail(ss))

\* The least element of a non-empty set of numbers
Min(S) == CHOOSE k \in S : \A m \in S : k <= m

\* Array.prototype.find, as <<>> (undefined) or <<element>>
SelectFirst(seq, Test(_)) ==
    With({k \in 1..Len(seq) : Test(seq[k])},
         LAMBDA hits : IF hits = {} THEN <<>> ELSE <<seq[Min(hits)]>>)

SeqToSet(seq) == {seq[k] : k \in 1..Len(seq)}

LineCount(doc) == Len(doc)
Line(doc, i) == doc[i + 1]
LineNumbers(doc) == [k \in 1..Len(doc) |-> k - 1]

RECURSIVE JoinLines(_)
JoinLines(doc) ==
    IF doc = <<>> THEN ""
    ELSE IF Len(doc) = 1 THEN doc[1]
    ELSE doc[1] \o "\n" \o JoinLines(Tail(doc))

(***************************************************************************)
(* The language's keywords and types.                                      *)
(***************************************************************************)
\* const types = [...]: what the array holds when the module is loaded
TypeNames == <<"void", "int", "float", "str", "string", "bool", "list", "dict",
               "set", "bytes", "any", "pyobject", "pyobj", "function">>

\* ^\s*(TYPE)\s+(\w+)  where TYPE is an alternation of \w-only names: the type
\* is followed by \s, so it is the whole word at the first non-space character.
TypedHead == <<Star(SpaceChars), Plus(WordChars), Plus(SpaceChars), Plus(WordChars)>>

\* /^\s*struct\s+(\w+)\s*\{/
structMatch(text) ==
    With(Scan(text, 1, TypedHead \o <<Star(SpaceChars), One({"{"})>>),
         LAMBDA p : [ok   |-> Matched(p) /\ Group(text, p, 2) = "struct",
                     name |-> Group(text, p, 4)])

\* new RegExp(`^\\s*(${typePattern})\\s+(\\w+)\\s*\\(([^)]*)\\)`)
funcRegex(text, typeSet) ==
    With(Scan(text, 1, TypedHead \o <<Star(SpaceChars), One({"("}),
                                      StarNot({")"}), One({")"})>>),
         LAMBDA p : [ok         |-> Matched(p) /\ Group(text, p, 2) \in typeSet,
                     returnType |-> Group(text, p, 2),
                     name       |-> Group(text, p, 4),
                     paramsText |-> Group(text, p, 7)])

\* varRegex without the '=' behind the name
varRegexNoEquals(text, typeSet) ==
    With(Scan(text, 1, TypedHead \o <<Star(SpaceChars)>>),
         LAMBDA p : [ok   |-> Matched(p) /\ Group(text, p, 2) \in typeSet,
                     type |-> Group(text, p, 2),
                     name |-> Group(text, p, 4),
                     next |-> p[5]])

\* new RegExp(`^\\s*(${typePattern})\\s+(\\w+)\\s*=`); next: the index after '='
varRegex(text, typeSet) ==
    With(Scan(text, 1, TypedHead \o <<Star(SpaceChars), One({"="})>>),
         LAMBDA p : [ok   |-> Matched(p) /\ Group(text, p, 2) \in typeSet,
                     type |-> Group(text, p, 2),
                     name |-> Group(text, p, 4),
                     next |-> p[6]])

\* new RegExp(`^\\s*(${typePattern})\\s+(\\w+)\\s*`)
fieldRegex(text, typeSet) ==
    With(Scan(text, 1, TypedHead),
         LAMBDA p : [ok   |-> Matched(p) /\ Group(text, p, 2) \in typeSet,
                     type |-> Group(text, p, 2),
                     name |-> Group(text, p, 4)])

\* this || that for two arrays of at most one element
Either(this, that) == IF this # <<>> THEN this ELSE that

\* ^(TYPE)\s+STARS(\w+)$ for STARS one of \*\* , \* and nothing: the parameter
\* pushed on a match, typed TYPE followed by suffix
typedParameter(trimmedParam, typeSet, stars, suffix) ==
    With(Scan(trimmedParam, 1,
              <<Plus(WordChars), Plus(SpaceChars)>> \o stars \o <<Plus(WordChars)>>),
         LAMBDA p : IF p[Len(p)] = Len(trimmedParam) + 1
                       /\ SubSeq(trimmedParam, 1, p[1] - 1) \in typeSet
                    THEN <<[type |-> SubSeq(trimmedParam, 1, p[1] - 1) \o suffix,
                            name |-> Group(trimmedParam, p, Len(p))]>>
                    ELSE <<>>)

\* /^(\w+)$/
untypedParameter(trimmedParam) ==
    IF trimmedParam # "" /\ Span(trimmedParam, 1, WordChars) = Len(trimmedParam) + 1
    THEN <<[type |-> "any", name |-> trimmedParam]>>
    ELSE <<>>

\* One comma-separated token of a parameter list, trimmed: the parameters it
\* adds (none when no pattern matches).
parseParameter(trimmedParam, typeSet) ==
    Either(typedParameter(trimmedParam, typeSet, <<One({"*"}), One({"*"})>>, "**"),
    Either(typedParameter(trimmedParam, typeSet, <<One({"*"})>>, "*"),
    Either(typedParameter(trimmedParam, typeSet, <<>>, ""),
           untypedParameter(trimmedParam))))

parseParameterList(paramList, typeSet) ==
    Flatten([k \in 1..Len(paramList) |-> parseParameter(trim(paramList[k]), typeSet)])

\* paramsText is funcMatch[3].trim()
parseParameters(paramsText, typeSet) ==
    IF paramsText = "" THEN <<>>
    ELSE parseParameterList(split(paramsText, {","}), typeSet)

\* The fields of a struct: the field lines from currentLine up to the first
\* line matching /^\s*\}/ or the end of the document.
RECURSIVE parseFields(_, _, _)
parseField(fieldMatch) ==
    IF fieldMatch.ok THEN <<[type |-> fieldMatch.type, name |-> fieldMatch.name]>>
    ELSE <<>>
parseFields(doc, currentLine, typeSet) ==
    IF currentLine >= LineCount(doc) THEN <<>>
    ELSE IF Matched(Scan(Line(doc, currentLine), 1, <<Star(SpaceChars), One({"}"})>>))
    THEN <<>>
    ELSE parseField(fieldRegex(Line(doc, currentLine), typeSet))
         \o parseFields(doc, currentLine + 1, typeSet)

\* A SymbolInfo; a field the source leaves undefined is "" or <<>>.
SymbolInfo(name, type, line, returnType, parameters, fields, varType) ==
    [name |-> name, type |-> type, line |-> line, returnType |-> returnType,
     parameters |-> parameters, fields |-> fields, varType |-> varType]

\* First pass: collect all struct names
structName(m) == IF m.ok THEN {m.name} ELSE {}
structNames(doc) ==
    UNION {structName(structMatch(Line(doc, i))) : i \in 0..LineCount(doc) - 1}

allTypes(doc) == SeqToSet(types) \cup structNames(doc)

\* The three ifs of the second pass: what a match of each pushes for line i
functionSymbol(i, funcMatch, typeSet) ==
    IF funcMatch.ok
    THEN <<SymbolInfo(funcMatch.name, "function", i, funcMatch.returnType,
                      parseParameters(trim(funcMatch.paramsText), typeSet), <<>>, "")>>
    ELSE <<>>

structSymbol(doc, i, m, typeSet) ==
    IF m.ok
    THEN <<SymbolInfo(m.name, "struct", i, "", <<>>, parseFields(doc, i + 1, typeSet), "")>>
    ELSE <<>>

variableSymbol(i, varMatch) ==
    IF varMatch.ok
    THEN <<SymbolInfo(varMatch.name, "variable", i, "", <<>>, <<>>, varMatch.type)>>
    ELSE <<>>

\* The symbols line i adds, in the order the source pushes them.
parseLine(doc, i, typeSet) ==
    functionSymbol(i, funcRegex(Line(doc, i), typeSet), typeSet)
    \o structSymbol(doc, i, structMatch(Line(doc, i)), typeSet)
    \o variableSymbol(i, varRegex(Line(doc, i), typeSet))

parseSymbolsOf(doc, typeSet) ==
    Flatten([k \in 1..LineCount(doc) |-> parseLine(doc, k - 1, typeSet)])

parseSymbols(doc) == parseSymbolsOf(doc, allTypes(doc))

(***************************************************************************)
(* inferType and inferReturnType.                                          *)
(***************************************************************************)
\* /^-?\d+$/
IsIntegerLiteral(v) ==
    Scan(v, 1, <<Opt({"-"}), Plus(Digits)>>)[2] = Len(v) + 1

\* /^-?\d+\.\d+$/
IsFloatLiteral(v) ==
    Scan(v, 1, <<Opt({"-"}), Plus(Digits), One({"."}), Plus(Digits)>>)[4] = Len(v) + 1

\* value.replace(/"[^"]*"|'[^']*'/g, '')
RECURSIVE removeQuoted(_)
removeQuoted(v) ==
    IF v = "" THEN ""
    ELSE LET q == Ch(v, 1)
             j == SpanNot(v, 2, {q})
         IN  IF q \in {"\"", "'"} /\ j <= Len(v)
             THEN removeQuoted(From(v, j + 1))
             ELSE q \o removeQuoted(From(v, 2))

\* inferType after value = value.trim()
inferTypeTrimmed(v) ==
    IF startsWith(v, "\"") /\ endsWith(v, "\"") THEN "str"
    ELSE IF startsWith(v, "'") /\ endsWith(v, "'") THEN "str"
    ELSE IF startsWith(v, "f\"") \/ startsWith(v, "f'") THEN "str"
    ELSE IF startsWith(v, "b\"") \/ startsWith(v, "b'") THEN "bytes"
    ELSE IF IsIntegerLiteral(v) THEN "int"
    ELSE IF IsFloatLiteral(v) THEN "float"
    ELSE IF v = "true" \/ v = "false" THEN "bool"
    ELSE IF startsWith(v, "[") /\ endsWith(v, "]") THEN "list"
    ELSE IF startsWith(v, "{") /\ endsWith(v, "}")
    THEN IF v = "{}" THEN "dict"
         ELSE IF includes(removeQuoted(v), ":") THEN "dict"
         ELSE "set"
    ELSE null

inferType(v) == inferTypeTrimmed(trim(v))

\* builtinReturnTypes, as (name, type) pairs.
builtinReturnTypes ==
    {<<"str", "str">>, <<"int", "int">>, <<"float", "float">>, <<"bool", "bool">>,
     <<"len", "int">>, <<"append", "list">>, <<"pop", "any">>,
     <<"input", "str">>, <<"split", "list">>, <<"join", "str">>,
     <<"upper", "str">>, <<"lower", "str">>, <<"strip", "str">>,
     <<"replace", "str">>,
     <<"sqrt", "float">>, <<"abs", "any">>, <<"round", "int">>,
     <<"floor", "int">>, <<"ceil", "int">>, <<"pow", "any">>, <<"min", "any">>,
     <<"max", "any">>, <<"sin", "float">>, <<"cos", "float">>,
     <<"tan", "float">>, <<"PI", "float">>, <<"E", "float">>,
     <<"fopen", "int">>, <<"fread", "bytes">>, <<"fwrite", "int">>,
     <<"exists", "bool">>, <<"isfile", "bool">>, <<"isdir", "bool">>,
     <<"listdir", "list">>, <<"getsize", "int">>, <<"getcwd", "str">>,
     <<"abspath", "str">>, <<"basename", "str">>, <<"dirname", "str">>,
     <<"pathjoin", "str">>,
     <<"fork", "int">>, <<"wait", "int">>, <<"sleep", "void">>,
     <<"socket", "int">>, <<"accept", "int">>, <<"send", "int">>,
     <<"recv", "bytes">>,
     <<"py_call", "any">>, <<"py_getattr", "any">>, <<"py_call_method", "any">>}

\* builtinReturnTypes[funcName]: the table is an object literal, so a name of
\* Object.prototype reads an inherited member, which is truthy and no type name.
ObjectPrototypeNames ==
    {"constructor", "toString", "toLocaleString", "valueOf", "hasOwnProperty",
     "isPrototypeOf", "propertyIsEnumerable", "__proto__"}

builtinReturnType(funcName) ==
    With({p \in builtinReturnTypes : p[1] = funcName},
         LAMBDA hits :
             IF hits # {} THEN (CHOOSE p \in hits : TRUE)[2]
             ELSE IF funcName \in ObjectPrototypeNames
             THEN "[object " \o funcName \o "]"
             ELSE null)

\* symbols.find(s => s.type === kind && s.name === name), as <<>> or <<s>>
findSymbol(symbols, kind, name) ==
    SelectFirst(symbols, LAMBDA s : s.type = kind /\ s.name = name)

\* The returnType of the function symbol funcName, "" when there is none
functionReturnType(symbols, funcName) ==
    With(findSymbol(symbols, "function", funcName),
         LAMBDA func : IF func # <<>> THEN func[1].returnType ELSE null)

\* The varType of the variable symbol name, "" when there is none
variableType(symbols, name) ==
    With(findSymbol(symbols, "variable", name),
         LAMBDA variable : IF variable # <<>> THEN variable[1].varType ELSE null)

\* /\bNAME\(/ somewhere in v
MatchesCallOf(v, name) ==
    \E i \in 1..Len(v) :
        startsWithAt(v, name \o "(", i) /\ Ch(v, i - 1) \notin WordChars

\* /[^<>]<[^<]/ (c = "<") and /[^<>]>[^>]/ (c = ">")
MatchesBareAngle(v, c) ==
    \E i \in 2..Len(v) - 1 :
        Ch(v, i) = c /\ Ch(v, i - 1) \notin {"<", ">"} /\ Ch(v, i + 1) # c

\* /\w+\[\d+\]/
MatchesIndexing(v) ==
    \E i \in 2..Len(v) :
        Ch(v, i - 1) \in WordChars
        /\ Matched(Scan(v, i, <<One({"["}), Plus(Digits), One({"]"})>>))

\* for (const operand of operands): some operand names a float variable
hasFloatOperand(operands, symbols) ==
    \E k \in 1..Len(operands) : variableType(symbols, trim(operands[k])) = "float"

\* The arithmetic branch, entered when the value holds one of + - * /
inferArithmetic(v, symbols) ==
    IF includes(v, "/") THEN "float"
    ELSE IF includes(v, ".") \/ MatchesCallOf(v, "float") THEN "float"
    ELSE IF hasFloatOperand(split(v, {"+", "-", "*", "/"}), symbols) THEN "float"
    ELSE "int"

\* value.match(/^(\w+)\.(\w+)$/)
fieldMatch(v) ==
    With(Scan(v, 1, <<Plus(WordChars), One({"."}), Plus(WordChars)>>),
         LAMBDA p : [ok        |-> p[3] = Len(v) + 1,
                     varName   |-> SubSeq(v, 1, p[1] - 1),
                     fieldName |-> Group(v, p, 3)])

\* The struct symbol a variable's varType names, when it has a varType
structOfType(symbols, varType) ==
    IF varType # "" THEN findSymbol(symbols, "struct", varType) ELSE <<>>

\* struct.fields.find(f => f.name === fieldName)?.type
fieldType(struct, fieldName) ==
    IF struct = <<>> THEN null
    ELSE With(SelectFirst(struct[1].fields, LAMBDA f : f.name = fieldName),
              LAMBDA field : IF field # <<>> THEN field[1].type ELSE null)

\* The field access step: the type it returns, "" when it returns nothing
inferFieldAccess(m, symbols) ==
    IF m.ok
    THEN fieldType(structOfType(symbols, variableType(symbols, m.varName)), m.fieldName)
    ELSE null

\* The variable reference step ( /^(\w+)$/ )
inferVariable(v, symbols) ==
    IF v # "" /\ Span(v, 1, WordChars) = Len(v) + 1
    THEN variableType(symbols, v)
    ELSE null

\* The steps of inferReturnType after the call and struct-construction steps.
inferOperators(v, symbols) ==
    IF includesAny(v, {"+", "-", "*", "/", "**"})
    THEN inferArithmetic(v, symbols)
    \* the second bitwise test (/\d+\s*[&|^]\s*\d+/ ...) matches only values
    \* that the first one already returned for
    ELSE IF includesAny(v, {"&", "|", "^", "<<", ">>"})
    THEN "int"
    ELSE IF includesAny(v, {"==", "!=", "<=", ">=", "and", "or", "not"})
            \/ MatchesBareAngle(v, "<") \/ MatchesBareAngle(v, ">")
    THEN "bool"
    ELSE IF includes(v, "+")
            /\ (includesAny(v, {"\"", "'"}) \/ MatchesCallOf(v, "str"))
    THEN "str"
    ELSE OrElse(inferVariable(v, symbols),
         OrElse(inferFieldAccess(fieldMatch(v), symbols),
                IF MatchesIndexing(v) THEN null ELSE null))

\* value.match(/^(\w+)\s*\(/)
funcCallMatch(v) ==
    With(Scan(v, 1, <<Plus(WordChars), Star(SpaceChars), One({"("})>>),
         LAMBDA p : [ok |-> Matched(p), funcName |-> SubSeq(v, 1, p[1] - 1)])

\* The function call and struct construction steps: what they return for the
\* match m, "" when they return nothing
inferCall(m, symbols) ==
    IF ~m.ok THEN null
    ELSE OrElse(functionReturnType(symbols, m.funcName),
         OrElse(builtinReturnType(m.funcName),
                IF findSymbol(symbols, "struct", m.funcName) # <<>>
                THEN m.funcName
                ELSE null))

\* inferReturnType after value = value.trim()
inferReturnTypeTrimmed(v, symbols) ==
    OrElse(inferTypeTrimmed(v),
    OrElse(inferCall(funcCallMatch(v), symbols),
           inferOperators(v, symbols)))

inferReturnType(v, symbols) == inferReturnTypeTrimmed(trim(v), symbols)

(***************************************************************************)
(* validateDocument: the checks, in the order the source runs them.        *)
(***************************************************************************)
Diagnostic(line, severity, code, message, subject, tags) ==
    [line |-> line, severity |-> severity, code |-> code, message |-> message,
     subject |-> subject, tags |-> tags]

controlFlowKeywords == {"if", "elif", "else", "while", "for", "switch", "case", "default"}

\* text.match(/^(\w+)\s*\([^)]*\)\s*\{/): the identifier, or "" when no match
invalidFuncMatch(text) ==
    With(Scan(text, 1, <<Plus(WordChars), Star(SpaceChars), One({"("}), StarNot({")"}),
                         One({")"}), Star(SpaceChars), One({"{"})>>),
         LAMBDA p : IF Matched(p) THEN SubSeq(text, 1, p[1] - 1) ELSE "")

missingReturnTypeDiagnostics(i, identifier) ==
    IF identifier # "" /\ identifier \notin SeqToSet(types)
       /\ identifier # "struct" /\ identifier \notin controlFlowKeywords
    THEN <<Diagnostic(i, "Error", "", "Missing return type for function", identifier, {})>>
    ELSE <<>>

\* text.match(/;(?!.*\/\/)/)
semicolonMatch(text) ==
    \E k \in 1..Len(text) : Ch(text, k) = ";" /\ indexOfFrom(text, "//", k + 1) = 0

semicolonDiagnostics(i, text) ==
    IF semicolonMatch(text) /\ ~startsWith(trim(text), "//")
    THEN <<Diagnostic(i, "Error", "no-semicolons", "Frscript does not use semicolons",
                      "", {})>>
    ELSE <<>>

\* The first loop over the lines: what line i adds
syntaxDiagnostics(doc, i) ==
    missingReturnTypeDiagnostics(i, invalidFuncMatch(Line(doc, i)))
    \o semicolonDiagnostics(i, Line(doc, i))

\* new RegExp(`^\\s*(${types.join('|')}|[A-Z][a-zA-Z0-9_]*)\\s+\\w+\\s*\\([^)]*\\)\\s*(\\{|$)`)
funcDefRegex(text) ==
    With(Scan(text, 1, TypedHead \o <<Star(SpaceChars), One({"("}), StarNot({")"}),
                                      One({")"}), Star(SpaceChars)>>),
         LAMBDA p : /\ Matched(p)
                    /\ Group(text, p, 2) \in SeqToSet(types) \/ Ch(text, p[1]) \in UpperCase
                    /\ Ch(text, p[9]) = "{" \/ p[9] > Len(text))

\* One match of /(\w+)\s*\(([^)]*)\)/g at or after index p, as <<>> or <<m>>;
\* argsText is match[2].trim()
RECURSIVE funcCallRegexExec(_, _)
funcCallRegexAt(text, p, q) ==
    IF Matched(q)
    THEN <<[funcName  |-> SubSeq(text, p, q[1] - 1),
            argsText  |-> trim(Group(text, q, 4)),
            lastIndex |-> q[5]]>>
    ELSE funcCallRegexExec(text, p + 1)
funcCallRegexExec(text, p) ==
    IF p > Len(text) THEN <<>>
    ELSE funcCallRegexAt(text, p,
             Scan(text, p, <<Plus(WordChars), Star(SpaceChars), One({"("}),
                             StarNot({")"}), One({")"})>>))

\* Every match of the while loop over funcCallRegex.exec(text)
RECURSIVE funcCalls(_, _)
funcCallsAfter(text, m) ==
    IF m = <<>> THEN <<>> ELSE m \o funcCalls(text, m[1].lastIndex)
funcCalls(text, p) == funcCallsAfter(text, funcCallRegexExec(text, p))

\* The calls the call-site check looks at on a line: none on a definition
lineCalls(text) == IF funcDefRegex(text) THEN <<>> ELSE funcCalls(text, 1)

\* argsText.split(',').map(a => a.trim()), or no argument for an empty text
trimAll(argList) == [k \in 1..Len(argList) |-> trim(argList[k])]
parseArguments(argsText) ==
    IF argsText = "" THEN <<>> ELSE trimAll(split(argsText, {","}))

hasVarargs(parameters) ==
    \E k \in 1..Len(parameters) : endsWith(parameters[k].type, "*")

\* The type check of one argument against its parameter or field
argumentDiagnostics(i, inferredType, expectedType, inStruct, funcName) ==
    IF inferredType # null /\ expectedType # "any" /\ inferredType # expectedType
    THEN IF expectedType = "int" /\ inferredType = "float"
         THEN <<Diagnostic(i, "Warning", "",
                           IF inStruct THEN "Implicit conversion in struct field"
                           ELSE "Implicit conversion in function parameter",
                           funcName, {})>>
         ELSE <<Diagnostic(i, "Error", "",
                           IF inStruct THEN "Type mismatch in struct field"
                           ELSE "Type mismatch: expected, but got",
                           funcName, {})>>
    ELSE <<>>

\* The loop over argIdx, for the first n arguments
argumentsDiagnostics(i, args, expected, inStruct, funcName, n) ==
    Flatten([k \in 1..n |->
        argumentDiagnostics(i, inferType(args[k]), expected[k].type, inStruct, funcName)])

structCallDiagnostics(i, funcName, fields, args) ==
    IF Len(args) # Len(fields)
    THEN <<Diagnostic(i, "Error", "", "Struct expects field(s), but got", funcName, {})>>
    ELSE argumentsDiagnostics(i, args, fields, TRUE, funcName, Len(args))

\* threw: reading funcDef.parameters[argIdx].type of a parameter that does not
\* exist throws a TypeError, after the arguments before it were checked
functionCallDiagnostics(i, funcName, parameters, args) ==
    IF ~hasVarargs(parameters) /\ Len(args) # Len(parameters)
    THEN [threw |-> FALSE,
          diagnostics |->
              <<Diagnostic(i, "Error", "", "Function expects argument(s), but got",
                           funcName, {})>>]
    ELSE [threw |-> Len(args) > Len(parameters),
          diagnostics |->
              argumentsDiagnostics(i, args, parameters, FALSE, funcName,
                                   Min({Len(args), Len(parameters)}))]

\* One iteration of the while loop, for the call m on line i
callDiagnosticsFor(i, m, structDef, funcDef, args) ==
    IF structDef # <<>>
    THEN [threw |-> FALSE,
          diagnostics |-> structCallDiagnostics(i, m.funcName, structDef[1].fields, args)]
    ELSE IF funcDef = <<>>
    THEN [threw |-> FALSE, diagnostics |-> <<>>]
    ELSE functionCallDiagnostics(i, m.funcName, funcDef[1].parameters, args)

callDiagnostics(i, m, userFunctions, userStructs) ==
    callDiagnosticsFor(i, m,
        SelectFirst(userStructs, LAMBDA s : s.name = m.funcName),
        SelectFirst(userFunctions, LAMBDA f : f.name = m.funcName),
        parseArguments(m.argsText))

\* What a sequence of iterations leaves: all their diagnostics, and whether one threw
Collect(results) ==
    [threw |-> \E k \in 1..Len(results) : results[k].threw,
     diagnostics |-> Flatten([k \in 1..Len(results) |-> results[k].diagnostics])]

callsDiagnostics(i, matches, userFunctions, userStructs) ==
    Collect([k \in 1..Len(matches) |->
                callDiagnostics(i, matches[k], userFunctions, userStructs)])

\* The call-site check of line i
lineCallDiagnostics(doc, i, userFunctions, userStructs) ==
    callsDiagnostics(i, lineCalls(Line(doc, i)), userFunctions, userStructs)

\* The types a checked variable declaration may name
varDeclTypes == {"int", "float", "str", "string", "bool", "list", "dict", "set",
                 "bytes", "any", "pyobject", "pyobj"}

\* text.match(/^\s*(int|float|...|pyobj)\s+(\w+)\s*=\s*(.+)$/); value is trimmed
varDeclMatch(text) ==
    With(varRegex(text, varDeclTypes),
         LAMBDA v : [ok |-> v.ok /\ v.next <= Len(text),
                     declaredType |-> v.type, varName |-> v.name,
                     value |-> IF v.ok THEN trim(From(text, v.next)) ELSE ""])

\* The inner loop of the enclosing-function search over the characters of
\* checkLine from index k: it stops at the '}' that brings the count to 0.
RECURSIVE braceWalk(_, _, _)
braceWalk(checkLine, k, braceCount) ==
    IF k > Len(checkLine) THEN [functionEnded |-> FALSE, braceCount |-> braceCount]
    ELSE IF Ch(checkLine, k) = "{" THEN braceWalk(checkLine, k + 1, braceCount + 1)
    ELSE IF Ch(checkLine, k) = "}"
    THEN IF braceCount - 1 = 0
         THEN [functionEnded |-> TRUE, braceCount |-> 0]
         ELSE braceWalk(checkLine, k + 1, braceCount - 1)
    ELSE braceWalk(checkLine, k + 1, braceCount)

\* The outer loop  for (j = func.line; j <= i && j < lineCount; j++)  from
\* line j, and its step after the walk w of line j
RECURSIVE functionWalk(_, _, _, _)
functionWalkAfter(doc, j, i, w) ==
    IF w.functionEnded THEN w ELSE functionWalk(doc, j + 1, i, w.braceCount)
functionWalk(doc, j, i, braceCount) ==
    IF j > i \/ j >= LineCount(doc)
    THEN [functionEnded |-> FALSE, braceCount |-> braceCount]
    ELSE functionWalkAfter(doc, j, i, braceWalk(Line(doc, j), 1, braceCount))

\* Whether line i is still inside func: the walk over lines func.line..i
stillInside(doc, func, i) ==
    func.line < i
    /\ With(functionWalk(doc, func.line, i, 0),
            LAMBDA w : ~w.functionEnded /\ w.braceCount > 0)

\* The function the search for the enclosing function of line i ends with
currentFunction(doc, userFunctions, i) ==
    SelectFirst(userFunctions, LAMBDA func : stillInside(doc, func, i))

parametersAsVariables(func) ==
    [k \in 1..Len(func.parameters) |->
        SymbolInfo(func.parameters[k].name, "variable", func.line, "", <<>>, <<>>,
                   func.parameters[k].type)]

\* The parameters of currentFunction as pseudo-variables, if there is one
currentParameters(cf) == IF cf # <<>> THEN parametersAsVariables(cf[1]) ELSE <<>>

symbolsForTypeChecking(doc, symbols, userFunctions, i) ==
    currentParameters(currentFunction(doc, userFunctions, i)) \o symbols

\* What the assignment check reports for a declared and an inferred type
\* assignmentDiagnostics without the downgrade of float to int
assignmentDiagnosticsNoDowngrade(i, declaredType, inferredType) ==
    IF inferredType # null /\ inferredType # "any" /\ inferredType # declaredType
    THEN <<Diagnostic(i, "Error", "type-mismatch",
                      "Type mismatch: cannot assign to variable", "", {})>>
    ELSE <<>>

assignmentDiagnostics(i, declaredType, inferredType) ==
    IF inferredType # null /\ inferredType # "any" /\ inferredType # declaredType
    THEN IF declaredType = "int" /\ inferredType = "float"
         THEN <<Diagnostic(i, "Warning", "implicit-cast",
                           "Implicit conversion from 'float' to 'int'", "", {})>>
         ELSE <<Diagnostic(i, "Error", "type-mismatch",
                           "Type mismatch: cannot assign to variable", "", {})>>
    ELSE <<>>

\* declarationDiagnostics with an int value accepted for a float variable
declarationDiagnosticsWidening(doc, i, m, symbols, userFunctions) ==
    IF m.ok /\ m.declaredType # "any"
    THEN With(inferReturnType(m.value,
                  symbolsForTypeChecking(doc, symbols, userFunctions, i)),
              LAMBDA t : IF m.declaredType = "float" /\ t = "int" THEN <<>>
                         ELSE assignmentDiagnostics(i, m.declaredType, t))
    ELSE <<>>

declarationDiagnostics(doc, i, m, symbols, userFunctions) ==
    IF m.ok /\ m.declaredType # "any"
    THEN assignmentDiagnostics(i, m.declaredType,
             inferReturnType(m.value,
                 symbolsForTypeChecking(doc, symbols, userFunctions, i)))
    ELSE <<>>

\* The variable-assignment check of line i
lineAssignmentDiagnostics(doc, i, symbols, userFunctions) ==
    declarationDiagnostics(doc, i, varDeclMatch(Line(doc, i)), symbols, userFunctions)

\* The closing-brace search of the return check over one line's characters from
\* index k.  hit: the '}' that closes the body was found on this line.
RECURSIVE bodyWalk(_, _, _, _)
bodyWalk(s, k, braceCount, foundStart) ==
    IF k > Len(s)
    THEN [hit |-> FALSE, braceCount |-> braceCount, foundStart |-> foundStart]
    ELSE IF Ch(s, k) = "{" THEN bodyWalk(s, k + 1, braceCount + 1, TRUE)
    ELSE IF Ch(s, k) = "}"
    THEN IF foundStart /\ braceCount - 1 = 0
         THEN [hit |-> TRUE, braceCount |-> 0, foundStart |-> TRUE]
         ELSE bodyWalk(s, k + 1, braceCount - 1, foundStart)
    ELSE bodyWalk(s, k + 1, braceCount, foundStart)

\* funcEndLine: the source never sets func.endLine, so it is always searched.
\* It stays funcStartLine when the search leaves the loop without a hit.
RECURSIVE findEndLine(_, _, _, _, _)
findEndLineAfter(doc, funcStartLine, i, w) ==
    IF w.hit THEN i
    ELSE IF w.foundStart /\ w.braceCount = 0 THEN funcStartLine
    ELSE findEndLine(doc, funcStartLine, i + 1, w.braceCount, w.foundStart)
findEndLine(doc, funcStartLine, i, braceCount, foundStart) ==
    IF i >= LineCount(doc) THEN funcStartLine
    ELSE findEndLineAfter(doc, funcStartLine, i,
                          bodyWalk(Line(doc, i), 1, braceCount, foundStart))

funcEndLine(doc, func) == findEndLine(doc, func.line, func.line, 0, FALSE)

\* The types a local variable declaration of the return check may name
localVarTypes == {"int", "float", "str", "string", "bool", "list", "dict", "set",
                  "any", "pyobject", "pyobj"}

localVars(doc, func, endLine) ==
    parametersAsVariables(func)
    \o Flatten([k \in 1..(endLine - func.line) |->
          variableSymbol(func.line + k, varRegex(Line(doc, func.line + k), localVarTypes))])

\* The characters of a word, one piece each
Literal(word) == [k \in 1..Len(word) |-> One({Ch(word, k)})]

\* /^\s*return\s+/ (hasReturn) and /^\s*return\s+(.+?)$/ (ok); value is trimmed
returnMatch(text) ==
    With(Scan(text, 1, <<Star(SpaceChars)>> \o Literal("return") \o <<Plus(SpaceChars)>>),
         LAMBDA p : [hasReturn   |-> Matched(p),
                     ok          |-> Matched(p) /\ (p[8] <= Len(text) \/ p[8] > p[7] + 1),
                     returnValue |-> IF Matched(p) THEN trim(From(text, p[8])) ELSE ""])

returnTypeDiagnostics(i, func, inferredType) ==
    IF inferredType # null /\ inferredType # "any"
       /\ inferredType # func.returnType /\ func.returnType # "any"
    THEN <<Diagnostic(i, "Error", "return-type-mismatch",
                      "Return type mismatch in function", func.name, {})>>
    ELSE <<>>

\* What the return statement loop adds for line i
returnLineDiagnostics(i, func, m, allSymbols) ==
    IF m.ok
    THEN returnTypeDiagnostics(i, func, inferReturnType(m.returnValue, allSymbols))
    ELSE <<>>

returnStatementDiagnostics(doc, func, endLine, allSymbols) ==
    Flatten([k \in 1..(endLine - func.line) |->
        returnLineDiagnostics(func.line + k, func, returnMatch(Line(doc, func.line + k)),
                              allSymbols)])

missingReturnDiagnostics(doc, func, endLine) ==
    IF func.returnType # "void"
       /\ ~\E k \in 1..(endLine - func.line) : returnMatch(Line(doc, func.line + k)).hasReturn
    THEN <<Diagnostic(func.line, "Warning", "missing-return",
                      "Function must return a value", func.name, {})>>
    ELSE <<>>

functionReturnDiagnostics(doc, func, symbols, endLine) ==
    returnStatementDiagnostics(doc, func, endLine, localVars(doc, func, endLine) \o symbols)
    \o missingReturnDiagnostics(doc, func, endLine)

\* The return check of one function
returnDiagnostics(doc, func, symbols) ==
    IF func.returnType = "" \/ func.returnType = "void" \/ func.returnType = "any"
    THEN <<>>
    ELSE functionReturnDiagnostics(doc, func, symbols, funcEndLine(doc, func))

\* callRegexAt without the word boundary before the name
callRegexAtNoBoundary(allText, name, i) ==
    /\ startsWithAt(allText, name, i)
    /\ Ch(allText, Span(allText, i + Len(name), SpaceChars)) = "("

\* new RegExp(`\\b${name}\\s*\\(`, 'g') matches at index i
callRegexAt(allText, name, i) ==
    /\ startsWithAt(allText, name, i)
    /\ Ch(allText, i - 1) \notin WordChars
    /\ Ch(allText, Span(allText, i + Len(name), SpaceChars)) = "("

\* new RegExp(`\\b${name}\\b`, 'g') matches at index i
usageRegexAt(allText, name, i) ==
    /\ startsWithAt(allText, name, i)
    /\ Ch(allText, i - 1) \notin WordChars
    /\ Ch(allText, i + Len(name)) \notin WordChars

\* (allText.match(regex) || []).length for a global regex that matches where
\* At holds.  Two matches of \bNAME... never overlap, a name being made of word
\* characters, so every index where the regex matches is one of the matches.
matchCount(allText, At(_)) == Cardinality({i \in 1..Len(allText) : At(i)})

\* new RegExp(`[\\(,=\\[]\\s*${name}\\s*[\\),\\]\\s]|[\\(,]\\s*${name}\\s*$`, 'gm')
\* matches with the opening character at index i and the name at index n: the
\* name is followed by white space or one of ) , ] ; or, after ( or , it ends
\* the text.
refRegexAt(allText, name, i, n) ==
    /\ startsWithAt(allText, name, n)
    /\ \/ /\ Ch(allText, i) \in {"(", ",", "=", "["}
          /\ Ch(allText, n + Len(name)) \in {")", ",", "]"} \cup SpaceChars
       \/ /\ Ch(allText, i) \in {"(", ","}
          /\ n + Len(name) > Len(allText)

\* refs.length > 0
refRegexMatches(allText, name) ==
    \E i \in 1..Len(allText) :
        refRegexAt(allText, name, i, Span(allText, i + 1, SpaceChars))

\* A decorator on the line before the declaration
hasDecorator(doc, func) ==
    func.line > 0 /\ startsWith(trim(Line(doc, func.line - 1)), "@")

unusedFunctionDiagnostics(doc, allText, func) ==
    IF func.name # "main" /\ ~hasDecorator(doc, func)
       /\ matchCount(allText, LAMBDA i : callRegexAt(allText, func.name, i)) <= 1
       /\ ~refRegexMatches(allText, func.name)
    THEN <<Diagnostic(func.line, "Hint", "", "Function is declared but never used",
                      func.name, {"Unnecessary"})>>
    ELSE <<>>

\* unusedVariableDiagnostics with one use beyond the declaration still flagged
unusedVariableDiagnosticsOnce(allText, variable) ==
    IF matchCount(allText, LAMBDA i : usageRegexAt(allText, variable.name, i)) <= 2
    THEN <<Diagnostic(variable.line, "Hint", "", "Variable is declared but never used",
                      variable.name, {"Unnecessary"})>>
    ELSE <<>>

unusedVariableDiagnostics(allText, variable) ==
    IF matchCount(allText, LAMBDA i : usageRegexAt(allText, variable.name, i)) <= 1
    THEN <<Diagnostic(variable.line, "Hint", "", "Variable is declared but never used",
                      variable.name, {"Unnecessary"})>>
    ELSE <<>>

\* The loops of validateDocument, each over the whole document
syntaxCheck(doc) ==
    Flatten([k \in 1..LineCount(doc) |-> syntaxDiagnostics(doc, k - 1)])

callCheck(doc, userFunctions, userStructs) ==
    Collect([k \in 1..LineCount(doc) |->
                lineCallDiagnostics(doc, k - 1, userFunctions, userStructs)])

assignmentCheck(doc, symbols, userFunctions) ==
    Flatten([k \in 1..LineCount(doc) |->
                lineAssignmentDiagnostics(doc, k - 1, symbols, userFunctions)])

returnCheck(doc, symbols, userFunctions) ==
    Flatten([k \in 1..Len(userFunctions) |->
                returnDiagnostics(doc, userFunctions[k], symbols)])

unusedFunctionCheck(doc, allText, userFunctions) ==
    Flatten([k \in 1..Len(userFunctions) |->
                unusedFunctionDiagnostics(doc, allText, userFunctions[k])])

unusedVariableCheck(allText, userVariables) ==
    Flatten([k \in 1..Len(userVariables) |->
                unusedVariableDiagnostics(allText, userVariables[k])])

\* The diagnostics array at diagnosticCollection.set, and whether an exception
\* of the call-site check left the function before it was reached
validation(before, calls, after) ==
    [threw |-> calls.threw, diagnostics |-> before \o calls.diagnostics \o after]

validateWith(doc, symbols, userFunctions, userStructs, userVariables, allText) ==
    validation(syntaxCheck(doc),
               callCheck(doc, userFunctions, userStructs),
               assignmentCheck(doc, symbols, userFunctions)
               \o returnCheck(doc, symbols, userFunctions)
               \o unusedFunctionCheck(doc, allText, userFunctions)
               \o unusedVariableCheck(allText, userVariables))

ofType(symbols, kind) == SelectSeq(symbols, LAMBDA s : s.type = kind)

validateSymbols(doc, symbols) ==
    validateWith(doc, symbols, ofType(symbols, "function"), ofType(symbols, "struct"),
                 ofType(symbols, "variable"), JoinLines(doc))

\* validateDocument for a document of language 'frscript'
validateDocument(doc) == validateSymbols(doc, parseSymbols(doc))


(***************************************************************************)
(* utils.ts: the helpers of the enhanced validation.                       *)
(***************************************************************************)
\* The defaults of getConfig().metrics
maxComplexity == 10
maxFunctionLength == 50
maxNestingDepth == 4

\* The longest burst of change events that is recorded
MaxBurst == 3

\* [^set]+
PlusNot(set) == [q |-> "+", in |-> FALSE, set |-> set]

\* The number of matches of a global regex that matches width characters at
\* the indices hits: the leftmost match, then the leftmost one behind it
RECURSIVE leftmostCount(_, _)
leftmostFrom(hits, first, width) ==
    1 + leftmostCount({i \in hits : i >= first + width}, width)
leftmostCount(hits, width) ==
    IF hits = {} THEN 0 ELSE leftmostFrom(hits, Min(hits), width)

\* Map.prototype.set: the value of a key that is there is replaced in place
mapSet(map, entry) ==
    IF \E k \in 1..Len(map) : map[k].key = entry.key
    THEN [k \in 1..Len(map) |-> IF map[k].key = entry.key THEN entry ELSE map[k]]
    ELSE Append(map, entry)

\* (?:\s+as\s+(\w+))? at index i: the alias, null when the group does not match
aliasAt(line, i) ==
    With(Scan(line, i, <<Plus(SpaceChars)>> \o Literal("as")
                       \o <<Plus(SpaceChars), Plus(WordChars)>>),
         LAMBDA p : IF Matched(p) THEN Group(line, p, Len(p)) ELSE null)

\* line.match(/^py_import\s+(\w+)(?:\s+as\s+(\w+))?/)
simpleImport(line) ==
    With(Scan(line, 1, Literal("py_import") \o <<Plus(SpaceChars), Plus(WordChars)>>),
         LAMBDA p : [ok     |-> Matched(p),
                     module |-> Group(line, p, 11),
                     next   |-> p[11]])

\* line.match(/^from\s+(\w+)\s+py_import\s+(\w+)(?:\s+as\s+(\w+))?/)
fromImport(line) ==
    With(Scan(line, 1, Literal("from") \o <<Plus(SpaceChars), Plus(WordChars),
                                             Plus(SpaceChars)>>
                       \o Literal("py_import") \o <<Plus(SpaceChars), Plus(WordChars)>>),
         LAMBDA p : [ok     |-> Matched(p),
                     module |-> Group(line, p, 6),
                     name   |-> Group(line, p, 18),
                     next   |-> p[18]])

importEntry(name, module, alias, i) ==
    [key |-> OrElse(alias, name), module |-> module, alias |-> alias, line |-> i]

setSimpleImport(imports, line, i, m) ==
    IF m.ok
    THEN mapSet(imports, importEntry(m.module, m.module, aliasAt(line, m.next), i))
    ELSE imports

setFromImport(imports, line, i, m) ==
    IF m.ok
    THEN mapSet(imports, importEntry(m.name, m.module \o "." \o m.name,
                                     aliasAt(line, m.next), i))
    ELSE imports

importsOfLine(imports, line, i) ==
    setFromImport(setSimpleImport(imports, line, i, simpleImport(line)),
                  line, i, fromImport(line))

RECURSIVE extractPythonImportsFrom(_, _, _)
extractPythonImportsFrom(doc, i, imports) ==
    IF i >= LineCount(doc) THEN imports
    ELSE extractPythonImportsFrom(doc, i + 1, importsOfLine(imports, trim(Line(doc, i)), i))

extractPythonImports(doc) == extractPythonImportsFrom(doc, 0, <<>>)

\* isInsideComment for the position (line, character)
isInsideComment(line, character) == includes(SubSeq(line, 1, character), "//")

Quotes == {"\"", "'"}

\* One turn of the loop of removeStringsFromLine; skip is the i++ of the turn
fStringBrace(s, char) ==
    IF char = "{" /\ s.braceDepth = 0 THEN [s EXCEPT !.braceDepth = 1]
    ELSE IF char = "}" /\ s.braceDepth = 1 THEN [s EXCEPT !.braceDepth = 0]
    ELSE With(IF char = "{" THEN s.braceDepth + 1
              ELSE IF char = "}" THEN s.braceDepth - 1
              ELSE s.braceDepth,
              LAMBDA depth : IF depth > 0 \/ ~s.inString
                             THEN [s EXCEPT !.braceDepth = depth, !.result = @ \o char]
                             ELSE [s EXCEPT !.braceDepth = depth])

removeStep(s, char, nextChar) ==
    IF s.escaped THEN [s EXCEPT !.escaped = FALSE]
    ELSE IF char = "\\" THEN [s EXCEPT !.escaped = TRUE]
    ELSE IF ~s.inString /\ char = "f" /\ nextChar \in Quotes
    THEN [s EXCEPT !.inString = TRUE, !.inFString = TRUE, !.stringChar = nextChar,
                   !.skip = 1]
    ELSE IF ~s.inString /\ char \in Quotes
    THEN [s EXCEPT !.inString = TRUE, !.stringChar = char, !.inFString = FALSE]
    ELSE IF s.inString /\ char = s.stringChar /\ s.braceDepth = 0
    THEN [s EXCEPT !.inString = FALSE, !.inFString = FALSE]
    ELSE IF s.inFString THEN fStringBrace(s, char)
    ELSE IF s.inString THEN s
    ELSE [s EXCEPT !.result = @ \o char]

RECURSIVE removeWalk(_, _, _)
removeWalkAfter(line, i, s) == removeWalk(line, i + 1 + s.skip, [s EXCEPT !.skip = 0])
removeWalk(line, i, s) ==
    IF i > Len(line) THEN s.result
    ELSE removeWalkAfter(line, i, removeStep(s, Ch(line, i), Ch(line, i + 1)))

removeStringsFromLine(line) ==
    removeWalk(line, 1, [result |-> "", inString |-> FALSE, stringChar |-> "",
                         inFString |-> FALSE, braceDepth |-> 0, escaped |-> FALSE,
                         skip |-> 0])

countOf(text, char) == Cardinality({k \in 1..Len(text) : Ch(text, k) = char})

complexityKeywords == {"if", "elif", "while", "for", "switch", "case"}

\* cleanedLine.match(/\b(if|elif|while|for|switch|case)\b/)
controlFlowMatch(cleanedLine) ==
    \E keyword \in complexityKeywords : \E k \in 1..Len(cleanedLine) :
        usageRegexAt(cleanedLine, keyword, k)

\* (cleanedLine.match(/&&|\|\|/g) || []).length
logicalOperatorCount(cleanedLine) ==
    leftmostCount({k \in 1..Len(cleanedLine) :
                     startsWithAt(cleanedLine, "&&", k)
                     \/ startsWithAt(cleanedLine, "||", k)}, 2)

lineComplexity(line, cleanedLine) ==
    IF isInsideComment(line, 0) THEN 0
    ELSE (IF controlFlowMatch(cleanedLine) THEN 1 ELSE 0)
         + logicalOperatorCount(cleanedLine)

RECURSIVE calculateComplexityFrom(_, _, _, _)
calculateComplexityFrom(doc, i, endLine, complexity) ==
    IF i > endLine THEN complexity
    ELSE calculateComplexityFrom(doc, i + 1, endLine,
             complexity + lineComplexity(Line(doc, i), removeStringsFromLine(Line(doc, i))))

calculateComplexity(doc, startLine, endLine) ==
    calculateComplexityFrom(doc, startLine, endLine, 1)

Max(a, b) == IF a >= b THEN a ELSE b

RECURSIVE calculateNestingDepthFrom(_, _, _, _, _)
nestingDepthAfter(doc, i, endLine, maxDepth, opened, cleanedLine) ==
    calculateNestingDepthFrom(doc, i + 1, endLine, Max(maxDepth, opened),
                              opened - countOf(cleanedLine, "}"))
nestingDepthOfLine(doc, i, endLine, maxDepth, currentDepth, cleanedLine) ==
    nestingDepthAfter(doc, i, endLine, maxDepth,
                      currentDepth + countOf(cleanedLine, "{"), cleanedLine)
calculateNestingDepthFrom(doc, i, endLine, maxDepth, currentDepth) ==
    IF i > endLine THEN maxDepth
    ELSE nestingDepthOfLine(doc, i, endLine, maxDepth, currentDepth,
                            removeStringsFromLine(Line(doc, i)))

calculateNestingDepth(doc, startLine, endLine) ==
    calculateNestingDepthFrom(doc, startLine, endLine, 0, 0)

\* The loop of findFunctionBody over the characters of one cleaned line
RECURSIVE cleanedLineWalk(_, _, _)
cleanedLineWalk(cleanedLine, k, w) ==
    IF k > Len(cleanedLine) \/ w.found THEN w
    ELSE IF Ch(cleanedLine, k) = "{"
    THEN cleanedLineWalk(cleanedLine, k + 1,
                  [w EXCEPT !.braceCount = @ + 1, !.foundStart = TRUE])
    ELSE IF Ch(cleanedLine, k) = "}"
    THEN cleanedLineWalk(cleanedLine, k + 1,
                  [w EXCEPT !.braceCount = @ - 1,
                            !.found = w.foundStart /\ w.braceCount = 1])
    ELSE cleanedLineWalk(cleanedLine, k + 1, w)

\* findFunctionBody: <<>> for null, or <<the body>>
RECURSIVE findFunctionBodyFrom(_, _, _, _)
findFunctionBodyAfter(doc, functionLine, i, w) ==
    IF w.found THEN <<[start |-> functionLine, end |-> i]>>
    ELSE findFunctionBodyFrom(doc, functionLine, i + 1, w)
findFunctionBodyFrom(doc, functionLine, i, w) ==
    IF i >= LineCount(doc) THEN <<>>
    ELSE findFunctionBodyAfter(doc, functionLine, i,
                               cleanedLineWalk(removeStringsFromLine(Line(doc, i)), 1, w))

findFunctionBody(doc, functionLine) ==
    findFunctionBodyFrom(doc, functionLine, functionLine,
                         [braceCount |-> 0, foundStart |-> FALSE, found |-> FALSE])

(***************************************************************************)
(* pythonInterop.ts: PythonInteropProvider and its diagnostics.            *)
(***************************************************************************)
\* The modules of an import map, as getImports pushes them
pythonModules(importMap) ==
    [k \in 1..Len(importMap) |-> [name  |-> importMap[k].module,
                                  alias |-> importMap[k].alias,
                                  line  |-> importMap[k].line]]

\* getImports, given importCache's entry for the document (<<>>: none)
getImports(doc, cached) ==
    IF cached # <<>> THEN cached[1] ELSE pythonModules(extractPythonImports(doc))

commonModules == {"os", "sys", "json", "math", "random", "datetime", "time",
                  "requests", "numpy", "pandas", "flask", "django", "asyncio"}

validateImport(moduleName) == moduleName \in commonModules

\* text.match(/py_call\s*\(\s*"([^"]+)"/) at index k: the module name, or null
pyCallAt(text, k) ==
    With(Scan(text, k, Literal("py_call") \o <<Star(SpaceChars), One({"("}),
                                               Star(SpaceChars), One({"\""}),
                                               PlusNot({"\""}), One({"\""})>>),
         LAMBDA p : IF Matched(p) THEN Group(text, p, 12) ELSE null)

pyCallMatch(text) ==
    With({k \in 1..Len(text) : pyCallAt(text, k) # null},
         LAMBDA hits : IF hits = {} THEN null ELSE pyCallAt(text, Min(hits)))

missingImportDiagnostics(i, moduleName, importedModules) ==
    IF moduleName # null /\ moduleName \notin importedModules
       /\ ~validateImport(moduleName)
    THEN <<Diagnostic(i, "Warning", "missing-python-import", "Module is not imported",
                      moduleName, {})>>
    ELSE <<>>

\* new RegExp(`\\b${moduleName}\\b`, 'g') matches at index i: a '.' of the
\* name stands for any character but a line terminator
moduleRegexAt(documentText, moduleName, i) ==
    /\ i + Len(moduleName) - 1 <= Len(documentText)
    /\ \A k \in 1..Len(moduleName) :
          IF Ch(moduleName, k) = "."
          THEN Ch(documentText, i + k - 1) \notin {"\n", "\r"}
          ELSE Ch(documentText, i + k - 1) = Ch(moduleName, k)
    /\ Ch(documentText, i - 1) \notin WordChars
    /\ Ch(documentText, i + Len(moduleName)) \notin WordChars

moduleUses(documentText, moduleName) ==
    leftmostCount({i \in 1..Len(documentText) :
                     moduleRegexAt(documentText, moduleName, i)}, Len(moduleName))

unusedImportDiagnostics(documentText, i, imp) ==
    IF imp.line = i /\ moduleUses(documentText, OrElse(imp.alias, imp.name)) <= 1
    THEN <<Diagnostic(i, "Hint", "unused-python-import", "Python import is never used",
                      OrElse(imp.alias, imp.name), {"Unnecessary"})>>
    ELSE <<>>

interopDiagnosticsOfLine(doc, documentText, i, imports, importedModules) ==
    missingImportDiagnostics(i, pyCallMatch(Line(doc, i)), importedModules)
    \o Flatten([k \in 1..Len(imports) |->
                  unusedImportDiagnostics(documentText, i, imports[k])])

importedModulesOf(imports) ==
    {OrElse(imports[k].alias, imports[k].name) : k \in 1..Len(imports)}

createPythonInteropDiagnostics(doc, imports) ==
    Flatten([k \in 1..LineCount(doc) |->
               interopDiagnosticsOfLine(doc, JoinLines(doc), k - 1, imports,
                                        importedModulesOf(imports))])

(***************************************************************************)
(* analysis.ts: MetricsProvider and its diagnostics.                       *)
(***************************************************************************)
metricTypes == {"void", "int", "float", "str", "bool", "list", "dict", "any", "pyobject"}

\* text.match(/^\s*(void|int|float|str|bool|list|dict|any|pyobject)\s+(\w+)\s*\(/)
funcMatch(text) ==
    With(Scan(text, 1, TypedHead \o <<Star(SpaceChars), One({"("})>>),
         LAMBDA p : [ok   |-> Matched(p) /\ Group(text, p, 2) \in metricTypes,
                     name |-> Group(text, p, 4)])

functionMetrics(doc, i, functionName, body) ==
    [name           |-> functionName,
     line           |-> i,
     complexity     |-> calculateComplexity(doc, body.start, body.end),
     functionLength |-> body.end - body.start + 1,
     nestingDepth   |-> calculateNestingDepth(doc, body.start, body.end)]

metricsOfBody(doc, i, functionName, body) ==
    IF body # <<>> THEN <<functionMetrics(doc, i, functionName, body[1])>> ELSE <<>>

metricsOfLine(doc, i, m) ==
    IF m.ok THEN metricsOfBody(doc, i, m.name, findFunctionBody(doc, i)) ELSE <<>>

calculateFileMetrics(doc) ==
    Flatten([k \in 1..LineCount(doc) |-> metricsOfLine(doc, k - 1, funcMatch(Line(doc, k - 1)))])

metricDiagnostics(metric) ==
    (IF metric.complexity > maxComplexity
     THEN <<Diagnostic(metric.line, "Warning", "high-complexity",
                       "Function has high cyclomatic complexity", metric.name, {})>>
     ELSE <<>>)
    \o (IF metric.functionLength > maxFunctionLength
        THEN <<Diagnostic(metric.line, "Information", "long-function",
                          "Function is too long", metric.name, {})>>
        ELSE <<>>)
    \o (IF metric.nestingDepth > maxNestingDepth
        THEN <<Diagnostic(metric.line, "Information", "deep-nesting",
                          "Function has deep nesting", metric.name, {})>>
        ELSE <<>>)

metricsDiagnosticsOf(metrics) ==
    Flatten([k \in 1..Len(metrics) |-> metricDiagnostics(metrics[k])])

\* createMetricsDiagnostics with config.metrics.enabled at its default, true
createMetricsDiagnostics(doc) == metricsDiagnosticsOf(calculateFileMetrics(doc))

\* No lookup yet
NoLookup == [cache |-> "none", text |-> <<>>, entry |-> <<>>]

\* The record of a burst: how many change events came and how many times
\* validateDocument ran since the timer last fired, the text of the last run,
\* and whether the timer has fired since.  Bursts are recorded only in the
\* specifications that begin with observed = TRUE.
Unobserved == [observed |-> FALSE, events |-> 0, runs |-> 0, last |-> <<>>, fired |-> FALSE]

NoBurst == [Unobserved EXCEPT !.observed = TRUE]

\* An open or an editor switch is no change event: it ends the burst
burstEnded(b) == IF b.observed THEN NoBurst ELSE b

\* validateDocument(e.document) of a change event: one more event, one more
\* run; the first event behind a timer begins a new burst, and a burst of more
\* than MaxBurst events is no longer recorded
burstChanged(b, doc) ==
    IF ~b.observed THEN b
    ELSE IF b.fired \/ b.events = 0
    THEN [NoBurst EXCEPT !.events = 1, !.runs = 1, !.last = doc]
    ELSE IF b.events >= MaxBurst THEN Unobserved
    ELSE [b EXCEPT !.events = b.events + 1, !.runs = b.runs + 1, !.last = doc]

\* validateDocument(document) of the timer's callback: one more run
burstFired(b, doc) ==
    IF b.observed /\ b.events > 0
    THEN [b EXCEPT !.runs = b.runs + 1, !.last = doc, !.fired = TRUE]
    ELSE b

Init ==
    /\ types = TypeNames
    /\ returned = <<>>
    /\ document = <<>>
    /\ diagnosticCollection = <<>>
    /\ outcome = "none"
    /\ timeout = FALSE
    /\ importCache = <<>>
    /\ symbolCache = <<>>
    /\ lookup = NoLookup
    /\ burst = Unobserved
    /\ InitWorkspace
    /\ value = ""
    /\ context = <<>>
    /\ inferred = null

(***************************************************************************)
(* The editor events.  Each handler runs validateDocument on the event's   *)
(* document, then the debounced validateDocumentEnhanced, which arms the   *)
(* one timer all documents share.  An exception thrown by validateDocument *)
(* leaves the handler: the published diagnostics stay what they were and   *)
(* the statements behind the call do not run.                              *)
(***************************************************************************)
\* The end of validateDocument: diagnosticCollection.set, unless it threw
publish(r) ==
    IF r.threw
    THEN /\ outcome' = "threw"
         /\ UNCHANGED diagnosticCollection
    ELSE /\ outcome' = "published"
         /\ diagnosticCollection' = r.diagnostics

\* The function debounce returns, without its setTimeout
debounceNever(r) == timeout' = timeout

\* The function debounce returns: clearTimeout, then setTimeout
debounce(r) == timeout' = IF r.threw THEN timeout ELSE TRUE

\* pythonProvider.clearCache(e.document)
clearCache(r) == importCache' = IF r.threw THEN importCache ELSE <<>>

\* validateDocument(doc); validateDocumentEnhanced(doc)
validateBoth(r) == publish(r) /\ debounce(r)

\* vscode.workspace.onDidOpenTextDocument, for a document out of docs
onDidOpenTextDocument(docs) ==
    /\ document = <<>>
    /\ \E doc \in docs :
          /\ document' = doc
          /\ validateBoth(validateDocument(doc))
    /\ burst' = burstEnded(burst)
    /\ UNCHANGED <<importCache, symbolCache, callVars>>

\* vscode.workspace.onDidChangeTextDocument, for an edit that leaves one of
\* texts: the listener of activate, and the listener of
\* registerWorkspaceSymbolProvider, which runs whatever the first one did
changeTextDocument(r) == validateBoth(r) /\ clearCache(r)

onDidChangeTextDocument(texts) ==
    /\ document # <<>>
    /\ \E doc \in texts \ {document} :
          /\ document' = doc
          /\ changeTextDocument(validateDocument(doc))
          /\ burst' = burstChanged(burst, doc)
    /\ symbolCache' = <<>>
    /\ UNCHANGED <<callVars>>

\* vscode.window.onDidChangeActiveTextEditor, for the editor of the document
onDidChangeActiveTextEditor ==
    /\ document # <<>>
    /\ validateBoth(validateDocument(document))
    /\ burst' = burstEnded(burst)
    /\ UNCHANGED <<document, importCache, symbolCache, callVars>>

\* The merge of validateDocumentEnhanced: the diagnostics validateDocument has
\* just set, then the Python interop ones, then the metrics ones
mergeDiagnostics(existingDiagnostics, imports) ==
    /\ importCache' = <<imports>>
    /\ diagnosticCollection' =
          existingDiagnostics \o createPythonInteropDiagnostics(document, imports)
                              \o createMetricsDiagnostics(document)

enhance(r) ==
    IF r.threw
    THEN /\ outcome' = "threw"
         /\ UNCHANGED <<diagnosticCollection, importCache>>
    ELSE /\ outcome' = "published"
         /\ mergeDiagnostics(r.diagnostics, getImports(document, importCache))

\* The timer fires, 500 ms after the last call of the debounced function: the
\* body of validateDocumentEnhanced runs on the document as it is by then
validateDocumentEnhanced ==
    /\ timeout
    /\ timeout' = FALSE
    /\ enhance(validateDocument(document))
    /\ burst' = burstFired(burst, document)
    /\ UNCHANGED <<document, symbolCache, callVars>>

\* The published diagnostics of line i, and those of them that carry a code
DiagnosticsOnLine(i) == SelectSeq(diagnosticCollection, LAMBDA d : d.line = i)
WithCode(diagnostics, code) == SelectSeq(diagnostics, LAMBDA d : d.code = code)
WithSeverity(diagnostics, severity) ==
    SelectSeq(diagnostics, LAMBDA d : d.severity = severity)

RECURSIVE SeqsUpTo(_, _)
SeqsUpTo(S, n) ==
    IF n = 0 THEN {<<>>}
    ELSE {<<>>} \cup {<<x>> \o q : x \in S, q \in SeqsUpTo(S, n - 1)}

RECURSIVE JoinWith(_, _)
JoinWith(parts, sep) ==
    IF parts = <<>> THEN ""
    ELSE IF Len(parts) = 1 THEN parts[1]
    ELSE parts[1] \o sep \o JoinWith(Tail(parts), sep)

\* One edit of a list of at most max elements of S: an element is appended, or
\* the last one is removed or replaced.
OneStep(q, S, max) ==
    {Append(q, x) : x \in IF Len(q) < max THEN S ELSE {}}
    \cup (IF q = <<>> THEN {}
          ELSE {SubSeq(q, 1, Len(q) - 1)}
               \cup {Append(SubSeq(q, 1, Len(q) - 1), x) : x \in S})

(***************************************************************************)
(* Documents with one function declaration and one call of it.             *)
(***************************************************************************)
MaxParams == 2
MaxArgs == 2

ParamNames == <<"a", "b", "c", "d">>

\* What a parameter is declared as: a type, or a variadic type ("int *", "str **")
ParamKinds == {"int", "str", "list", "int *", "str **"}

\* The literals passed, with the type each is a literal of
ArgLiterals ==
    {<<"1", "int">>, <<"2.5", "float">>, <<"\"s\"", "str">>,
     <<"[1]", "list">>, <<"[1, 2]", "list">>}

IsVariadicKind(kind) == endsWith(kind, "*")

ParamText(kind, k) ==
    kind \o (IF IsVariadicKind(kind) THEN "" ELSE " ") \o ParamNames[k]

DeclLine(kinds) ==
    "void f(" \o JoinWith([k \in 1..Len(kinds) |-> ParamText(kinds[k], k)], ", ") \o ") {}"

CallLine(args) == "f(" \o JoinWith([k \in 1..Len(args) |-> args[k][1]], ", ") \o ")"

CallDoc(kinds, args) == <<DeclLine(kinds), CallLine(args)>>

\* Every document of the family, with the declaration and the call it was built from
CallFamily ==
    {[kinds |-> kinds, args |-> args, doc |-> CallDoc(kinds, args)] :
        kinds \in SeqsUpTo(ParamKinds, MaxParams), args \in SeqsUpTo(ArgLiterals, MaxArgs)}

CallDocs == {e.doc : e \in CallFamily}

CallEditsOf(c) ==
    {CallDoc(kinds, c.args) : kinds \in OneStep(c.kinds, ParamKinds, MaxParams)}
    \cup {CallDoc(c.kinds, args) : args \in OneStep(c.args, ArgLiterals, MaxArgs)}

CallEdits(doc) ==
    IF doc \in CallDocs THEN CallEditsOf(CHOOSE e \in CallFamily : e.doc = doc) ELSE {}

NextCall ==
    \/ onDidOpenTextDocument(CallDocs)
    \/ onDidChangeTextDocument(CallEdits(document))
    \/ onDidChangeActiveTextEditor
    \/ validateDocumentEnhanced

SpecCall == Init /\ [][NextCall]_vars

(***************************************************************************)
(* Documents with a declaration  T x = initializer  after a function g and *)
(* a float variable y, and documents with a struct P, a variable p of it   *)
(* and a declaration  T z = p.field .                                      *)
(***************************************************************************)
DeclaredTypes == {"int", "float", "str", "any"}

\* The return types g is declared with
GTypes == {"float", "int"}

\* The initializers, each with the type inferReturnType is to give it ("g": the
\* return type of g)
Initializers ==
    {<<"3", "int">>, <<"-2", "int">>, <<"2 + 3", "int">>,
     <<"3.5", "float">>, <<"10 / 2", "float">>, <<"10 / 2;", "float">>,
     <<"1.5 + 2", "float">>, <<"y", "float">>, <<"y * 2", "float">>,
     <<"g(1)", "g">>, <<"g(1, 2)", "g">>, <<"g(2.5)", "g">>,
     <<"\"s\"", "str">>}

IntegerLiterals == {"3", "-2"}

InitializerType(init, gType) == IF init[2] = "g" THEN gType ELSE init[2]

AssignDoc(gType, declared, init) ==
    <<gType \o " g(int a) {}", "float y = 2.5", declared \o " x = " \o init[1]>>

AssignFamily ==
    {[gType |-> gType, declared |-> declared, init |-> init,
      doc |-> AssignDoc(gType, declared, init)] :
        gType \in GTypes, declared \in DeclaredTypes, init \in Initializers}

AssignDocs == {e.doc : e \in AssignFamily}

AssignEditsOf(c) ==
    {AssignDoc(gType, c.declared, c.init) : gType \in GTypes}
    \cup {AssignDoc(c.gType, declared, c.init) : declared \in DeclaredTypes}
    \cup {AssignDoc(c.gType, c.declared, init) : init \in Initializers}

FieldTypes == {"int", "str"}
FieldNames == {"y", "color"}

\* A literal of a field type, for the construction of p
FieldLiteral(secondType) == IF secondType = "int" THEN "2" ELSE "\"s\""

StructDoc(secondType, secondName, declared, accessed) ==
    <<"struct P {", "  int x", "  " \o secondType \o " " \o secondName, "}",
      "P p = P(1, " \o FieldLiteral(secondType) \o ")",
      declared \o " z = p." \o accessed>>

\* second: the initializer reads the second field of P, otherwise the field x;
\* accessedType is the declared type of the field it reads
StructFamily ==
    {[secondType |-> secondType, secondName |-> secondName, declared |-> declared,
      second |-> second,
      accessedType |-> IF second THEN secondType ELSE "int",
      doc |-> StructDoc(secondType, secondName, declared,
                        IF second THEN secondName ELSE "x")] :
        secondType \in FieldTypes, secondName \in FieldNames,
        declared \in DeclaredTypes, second \in BOOLEAN}

StructDocs == {e.doc : e \in StructFamily}

StructEditsOf(c) ==
    {e.doc : e \in {d \in StructFamily :
        Cardinality({f \in {"secondType", "secondName", "declared", "second"} :
                        d[f] # c[f]}) = 1}}

AssignEdits(doc) ==
    IF doc \in AssignDocs THEN AssignEditsOf(CHOOSE e \in AssignFamily : e.doc = doc)
    ELSE IF doc \in StructDocs
    THEN StructEditsOf(CHOOSE e \in StructFamily : e.doc = doc)
    ELSE {}

NextAssign ==
    \/ onDidOpenTextDocument(AssignDocs \cup StructDocs)
    \/ onDidChangeTextDocument(AssignEdits(document))
    \/ onDidChangeActiveTextEditor
    \/ validateDocumentEnhanced

SpecAssign == Init /\ [][NextAssign]_vars

(***************************************************************************)
(* Documents with one function f, its body on the lines after the          *)
(* declaration or on the declaration's line.                               *)
(***************************************************************************)
MaxBodyLines == 2

ReturnTypes == {"int", "float", "str", "void", "any"}

\* The statements of a body, each with whether it holds a  return <expr>
Statements ==
    {<<"return 1", TRUE>>, <<"println(\"hi\")", FALSE>>, <<"return", FALSE>>,
     <<"if (x) { return 1 }", TRUE>>}

ReturnDoc(rt, body, oneLine) ==
    IF oneLine
    THEN <<rt \o " f() { " \o JoinWith([k \in 1..Len(body) |-> body[k][1]], " ") \o " }">>
    ELSE <<rt \o " f() {">> \o [k \in 1..Len(body) |-> "  " \o body[k][1]] \o <<"}">>

\* A body on the declaration's line holds at most one statement
ReturnFamily ==
    {[rt |-> rt, body |-> body, oneLine |-> oneLine, doc |-> ReturnDoc(rt, body, oneLine)] :
        rt \in ReturnTypes,
        body \in SeqsUpTo(Statements, MaxBodyLines),
        oneLine \in BOOLEAN}

ReturnShapes == {e \in ReturnFamily : e.oneLine => Len(e.body) <= 1}

ReturnDocs == {e.doc : e \in ReturnShapes}

ReturnEditsOf(c) ==
    {ReturnDoc(rt, c.body, c.oneLine) : rt \in ReturnTypes}
    \cup {ReturnDoc(c.rt, body, c.oneLine) :
            body \in OneStep(c.body, Statements, IF c.oneLine THEN 1 ELSE MaxBodyLines)}
    \cup (IF Len(c.body) <= 1 THEN {ReturnDoc(c.rt, c.body, ~c.oneLine)} ELSE {})

ReturnEdits(doc) ==
    IF doc \in ReturnDocs THEN ReturnEditsOf(CHOOSE e \in ReturnShapes : e.doc = doc)
    ELSE {}

NextReturn ==
    \/ onDidOpenTextDocument(ReturnDocs)
    \/ onDidChangeTextDocument(ReturnEdits(document))
    \/ onDidChangeActiveTextEditor
    \/ validateDocumentEnhanced

SpecReturn == Init /\ [][NextReturn]_vars

(***************************************************************************)
(* Documents with one function, one variable x, and lines that call or     *)
(* name the function helper and the variable.                              *)
(***************************************************************************)
MaxExtra == 2

Prefixes == {<<>>, <<"@export">>}

FunctionNames == {"helper", "main"}

\* The lines after the declarations, each with the number of call sites of
\* helper, of bare references to helper and of uses of x that it holds
ExtraLines ==
    {<<"helper()", 1, 0, 0>>, <<"myhelper()", 0, 0, 0>>, <<"run(helper)", 0, 1, 0>>,
     <<"println(x)", 0, 0, 1>>, <<"println(xy)", 0, 0, 0>>}

Occurrences(extras, kind) == Cardinality({k \in DOMAIN extras : extras[k][kind] = 1})

UnusedDoc(prefix, name, extras) ==
    prefix \o <<"void " \o name \o "() {}", "int x = 1">>
           \o [k \in 1..Len(extras) |-> extras[k][1]]

UnusedFamily ==
    {[prefix |-> prefix, name |-> name, extras |-> extras,
      calls |-> Occurrences(extras, 2), refs |-> Occurrences(extras, 3),
      uses |-> Occurrences(extras, 4),
      doc |-> UnusedDoc(prefix, name, extras)] :
        prefix \in Prefixes, name \in FunctionNames,
        extras \in SeqsUpTo(ExtraLines, MaxExtra)}

UnusedDocs == {e.doc : e \in UnusedFamily}

UnusedEditsOf(c) ==
    {UnusedDoc(prefix, c.name, c.extras) : prefix \in Prefixes}
    \cup {UnusedDoc(c.prefix, name, c.extras) : name \in FunctionNames}
    \cup {UnusedDoc(c.prefix, c.name, extras) :
            extras \in OneStep(c.extras, ExtraLines, MaxExtra)}

UnusedEdits(doc) ==
    IF doc \in UnusedDocs THEN UnusedEditsOf(CHOOSE e \in UnusedFamily : e.doc = doc)
    ELSE {}

NextUnused ==
    \/ onDidOpenTextDocument(UnusedDocs)
    \/ onDidChangeTextDocument(UnusedEdits(document))
    \/ onDidChangeActiveTextEditor
    \/ validateDocumentEnhanced

SpecUnused == Init /\ [][NextUnused]_vars

(***************************************************************************)
(* inferReturnType on division expressions, under a symbol list.           *)
(***************************************************************************)
Operands == {"10", "2.5", "\"a\"", "true", "[1]", "n", "len(n)", "g(1)"}

Dividers == {" / ", "/"}

Divisions == {[a |-> a, b |-> b, text |-> a \o sep \o b] :
                a \in Operands, b \in Operands, sep \in Dividers}

InferContexts == {<<>>, parseSymbols(<<"int n = 4", "int g(int a) {}">>)}

InitInfer ==
    /\ types = TypeNames
    /\ returned = <<>>
    /\ document = <<>>
    /\ diagnosticCollection = <<>>
    /\ outcome = "none"
    /\ timeout = FALSE
    /\ importCache = <<>>
    /\ symbolCache = <<>>
    /\ lookup = NoLookup
    /\ burst = Unobserved
    /\ InitWorkspace
    /\ value \in {d.text : d \in Divisions}
    /\ context \in InferContexts
    /\ inferred = null

\* A call inferReturnType(value, context)
callInferReturnType ==
    /\ outcome = "none"
    /\ inferred' = inferReturnType(value, context)
    /\ outcome' = "returned"
    /\ UNCHANGED <<eventVars, value, context, types, returned, lookup>>

NextInfer == callInferReturnType

SpecInfer == InitInfer /\ [][NextInfer]_vars

(***************************************************************************)
(* The properties.                                                         *)
(***************************************************************************)
IsVariadic(c) == \E k \in 1..Len(c.kinds) : IsVariadicKind(c.kinds[k])

\* Whether the first n arguments are literals of the declared types
LiteralsMatch(c, n) == \A k \in 1..n : c.args[k][2] = c.kinds[k]

\* The last line of a document: the call, or the declaration with the
\* initializer, in the documents of CallFamily, AssignFamily and StructFamily
LastLine(doc) == LineCount(doc) - 1

\* C1: validateDocument never throws, whatever the number of arguments of a
\* call is relative to the callee's parameters, variadic or not: after every
\* event on a document its diagnostics have been published.
C1_NeverThrows == document # <<>> => outcome = "published"

\* C2: a call of a function without a variadic parameter, with as many
\* arguments as parameters, each a literal of the declared type, gets no
\* diagnostic from the call-site check; with one parameter less declared it
\* gets exactly one Error, the arity mismatch, and no other diagnostic.
C2_MatchingCall ==
    \A c \in CallFamily :
        document = c.doc /\ ~IsVariadic(c) =>
            /\ outcome = "published"
            /\ Len(c.args) = Len(c.kinds) /\ LiteralsMatch(c, Len(c.kinds))
                  => DiagnosticsOnLine(LastLine(document)) = <<>>
            /\ Len(c.args) = Len(c.kinds) + 1 /\ LiteralsMatch(c, Len(c.kinds))
                  => /\ Len(DiagnosticsOnLine(LastLine(document))) = 1
                     /\ \A k \in DOMAIN DiagnosticsOnLine(LastLine(document)) :
                           /\ DiagnosticsOnLine(LastLine(document))[k].severity = "Error"
                           /\ DiagnosticsOnLine(LastLine(document))[k].message
                                 = "Function expects argument(s), but got"

\* C3: a call of a function that declares a variadic parameter gets no
\* diagnostic from the call-site check, neither for its arity nor for an
\* argument, whatever the arguments are.
C3_VariadicSkipped ==
    \A c \in CallFamily :
        document = c.doc /\ IsVariadic(c) /\ outcome = "published"
            => DiagnosticsOnLine(LastLine(document)) = <<>>

IsFloatToInt(c) == c.declared = "int" /\ InitializerType(c.init, c.gType) = "float"

\* C4 as stated: a declaration  int name = expr  whose initializer is inferred
\* as float has exactly one Warning on its line, with code implicit-cast, and
\* no Error on its line.
C4_OneWarningNoError ==
    \A c \in AssignFamily :
        document = c.doc /\ IsFloatToInt(c) =>
            /\ outcome = "published"
            /\ Len(WithSeverity(DiagnosticsOnLine(LastLine(document)), "Warning")) = 1
            /\ Len(WithCode(WithSeverity(DiagnosticsOnLine(LastLine(document)), "Warning"),
                            "implicit-cast")) = 1
            /\ WithSeverity(DiagnosticsOnLine(LastLine(document)), "Error") = <<>>

\* C4: a declaration  int name = expr  whose initializer is inferred as float
\* has exactly one diagnostic with code implicit-cast on its line, a Warning,
\* and none with code type-mismatch; the diagnostics of the other checks for
\* the line stand beside it.
C4_ImplicitCast ==
    \A c \in AssignFamily :
        document = c.doc /\ IsFloatToInt(c) =>
            /\ outcome = "published"
            /\ Len(WithCode(DiagnosticsOnLine(LastLine(document)), "implicit-cast")) = 1
            /\ Len(WithSeverity(WithCode(DiagnosticsOnLine(LastLine(document)),
                                         "implicit-cast"), "Warning")) = 1
            /\ WithCode(DiagnosticsOnLine(LastLine(document)), "type-mismatch") = <<>>

\* The call g(1, 2) is inferred as float, is assigned to an int and has an
\* argument too many: the implicit-cast Warning is published beside an Error
C4_Witness ==
    /\ document = AssignDoc("float", "int", <<"g(1, 2)", "g">>)
    /\ outcome = "published"
    /\ WithCode(DiagnosticsOnLine(LastLine(document)), "implicit-cast") # <<>>
    /\ WithSeverity(DiagnosticsOnLine(LastLine(document)), "Error") # <<>>

IsIntToFloat(c) == c.declared = "float" /\ c.init[1] \in IntegerLiterals

\* C5 as stated: a declaration  float name = <integer literal>  has no diagnostic.
C5_ZeroDiagnostics ==
    \A c \in AssignFamily :
        document = c.doc /\ IsIntToFloat(c) =>
            /\ outcome = "published"
            /\ DiagnosticsOnLine(LastLine(document)) = <<>>

\* C5: a declaration  float name = <integer literal>  has exactly one Error on
\* its line, with code type-mismatch, and no Warning; what else is on the line
\* is a Hint tagged Unnecessary.
C5_WideningIsError ==
    \A c \in AssignFamily :
        document = c.doc /\ IsIntToFloat(c) =>
            /\ outcome = "published"
            /\ Len(WithSeverity(DiagnosticsOnLine(LastLine(document)), "Error")) = 1
            /\ Len(WithCode(WithSeverity(DiagnosticsOnLine(LastLine(document)), "Error"),
                            "type-mismatch")) = 1
            /\ \A k \in DOMAIN DiagnosticsOnLine(LastLine(document)) :
                  \/ DiagnosticsOnLine(LastLine(document))[k].severity = "Error"
                  \/ /\ DiagnosticsOnLine(LastLine(document))[k].severity = "Hint"
                     /\ "Unnecessary" \in DiagnosticsOnLine(LastLine(document))[k].tags

C5_Witness ==
    /\ document = AssignDoc("float", "float", <<"3", "int">>)
    /\ outcome = "published"
    /\ WithCode(DiagnosticsOnLine(LastLine(document)), "type-mismatch") # <<>>

\* C6: with struct P (int x, int y), P p = P(1, 2) and  T z = p.x  there is no
\* diagnostic when T is int and a type-mismatch Error on the line of z when T
\* is str; in general the initializer p.f has the declared type of field f, so
\* the line of z has a type-mismatch Error exactly when T is another type.
C6_FieldAccess ==
    \A c \in StructFamily :
        document = c.doc =>
            /\ outcome = "published"
            /\ c.secondType = "int" /\ c.secondName = "y" /\ ~c.second /\ c.declared = "int"
                  => diagnosticCollection = <<>>
            /\ c.secondType = "int" /\ c.secondName = "y" /\ ~c.second /\ c.declared = "str"
                  => Len(WithSeverity(WithCode(DiagnosticsOnLine(LastLine(document)),
                                               "type-mismatch"), "Error")) = 1
            /\ c.declared # "any"
                  => (WithCode(DiagnosticsOnLine(LastLine(document)), "type-mismatch") # <<>>
                        <=> c.declared # c.accessedType)

HasReturn(c) == \E k \in 1..Len(c.body) : c.body[k][2]

\* C7: a function whose return type is neither void nor any has exactly one
\* Warning with code missing-return if and only if its body, on the lines after
\* the declaration or on the declaration's line, has no  return <expr> .
C7_MissingReturn ==
    \A c \in ReturnShapes :
        document = c.doc /\ c.rt \notin {"void", "any"} =>
            /\ outcome = "published"
            /\ Len(WithCode(diagnosticCollection, "missing-return"))
                  = IF HasReturn(c) THEN 0 ELSE 1
            /\ WithSeverity(WithCode(diagnosticCollection, "missing-return"), "Warning")
                  = WithCode(diagnosticCollection, "missing-return")

\* The published diagnostics with a message, about a name
About(message, name) ==
    SelectSeq(diagnosticCollection, LAMBDA d : d.message = message /\ d.subject = name)

FunctionHints(name) == About("Function is declared but never used", name)
VariableHints(name) == About("Variable is declared but never used", name)

IsUnnecessaryHint(d) == d.severity = "Hint" /\ d.tags = {"Unnecessary"}

\* C8: a function other than main, with no decorator on the line before it,
\* has exactly one Hint tagged Unnecessary when its name is called nowhere but
\* at its definition and is never referenced bare, and has none once the
\* document holds a call site of it.
C8_UnusedFunction ==
    \A c \in UnusedFamily :
        document = c.doc /\ c.name # "main" /\ c.prefix = <<>> =>
            /\ outcome = "published"
            /\ c.calls = 0 /\ c.refs = 0
                  => /\ Len(FunctionHints(c.name)) = 1
                     /\ IsUnnecessaryHint(FunctionHints(c.name)[1])
            /\ c.calls >= 1 => FunctionHints(c.name) = <<>>

\* helper is declared, and the one call in the document is of myhelper
C8_Witness ==
    /\ document = UnusedDoc(<<>>, "helper", <<<<"myhelper()", 0, 0, 0>>>>)
    /\ outcome = "published"
    /\ Len(FunctionHints("helper")) = 1

\* C9 as stated: a variable is flagged if and only if its name appears one
\* time or fewer beyond its declaration.
C9_FlaggedWhenUsedOnce ==
    \A c \in UnusedFamily :
        document = c.doc =>
            /\ outcome = "published"
            /\ VariableHints("x") # <<>> <=> c.uses <= 1

\* C9: a variable has a Hint tagged Unnecessary, exactly one, if and only if
\* its name appears nowhere in the document beyond its declaration.
C9_UnusedVariable ==
    \A c \in UnusedFamily :
        document = c.doc =>
            /\ outcome = "published"
            /\ Len(VariableHints("x")) = IF c.uses = 0 THEN 1 ELSE 0
            /\ \A k \in DOMAIN VariableHints("x") : IsUnnecessaryHint(VariableHints("x")[k])

\* x is referenced exactly once after its declaration and is not flagged
C9_Witness ==
    /\ document = UnusedDoc(<<>>, "helper", <<<<"println(x)", 0, 0, 1>>>>)
    /\ outcome = "published"
    /\ VariableHints("x") = <<>>

\* C10: inferReturnType returns float for every division a / b, whatever the
\* operands are: literals of any type, identifiers or calls.
C10_DivisionIsFloat == outcome = "returned" => inferred = "float"

(***************************************************************************)
(* inferType on the primitive literals and on bare identifiers.            *)
(***************************************************************************)
MaxElements == 2

OtherQuote(q) == IF q = "\"" THEN "'" ELSE "\""

\* What stands between the quotes q of a string literal: plain text, text that
\* looks like another literal, the other quote, and an escaped quote
StringBodies(q) ==
    {"", "a", "k:v", "[1]", "3", "true", OtherQuote(q), "a\\" \o q \o ":b"}

QuotedWith(q) ==
    {[text |-> prefix \o q \o body \o q,
      type |-> IF prefix = "b" THEN "bytes" ELSE "str"] :
        prefix \in {"", "f", "b"}, body \in StringBodies(q)}

StringLiterals == UNION {QuotedWith(q) : q \in Quotes}

NumberLiterals ==
    {[text |-> t, type |-> "int"] : t \in {"0", "3", "-2", "42"}}
    \cup {[text |-> t, type |-> "float"] : t \in {"3.5", "-0.25", "10.0"}}
    \cup {[text |-> t, type |-> "bool"] : t \in {"true", "false"}}

\* The literals a list, a set or a dict literal is made of
Elements == {"1", "2.5", "true", "\"a\"", "'k:v'", "\"a\\\":b\""}

Pairs == {k \o ": " \o v : k \in {"\"a\"", "1", "'k:v'"}, v \in {"1", "\"a\\\":b\""}}

ListLiterals ==
    {[text |-> "[" \o JoinWith(q, ", ") \o "]", type |-> "list"] :
        q \in SeqsUpTo(Elements, MaxElements)}

SetLiterals ==
    {[text |-> "{" \o JoinWith(q, ", ") \o "}", type |-> "set"] :
        q \in SeqsUpTo(Elements, MaxElements) \ {<<>>}}

DictLiterals ==
    {[text |-> "{" \o JoinWith(q, ", ") \o "}", type |-> "dict"] :
        q \in SeqsUpTo(Pairs, MaxElements)}

Identifiers ==
    {[text |-> t, type |-> null] :
        t \in {"x", "count", "order", "handle", "f", "b", "fb", "_t", "x1", "truex"}}

LiteralFamily ==
    StringLiterals \cup NumberLiterals \cup ListLiterals \cup SetLiterals
    \cup DictLiterals \cup Identifiers

\* The type the literal value is a literal of (null for an identifier)
OwnType(text) == (CHOOSE l \in LiteralFamily : l.text = text).type

InitLiteral ==
    /\ types = TypeNames
    /\ returned = <<>>
    /\ document = <<>>
    /\ diagnosticCollection = <<>>
    /\ outcome = "none"
    /\ timeout = FALSE
    /\ importCache = <<>>
    /\ symbolCache = <<>>
    /\ lookup = NoLookup
    /\ burst = Unobserved
    /\ InitWorkspace
    /\ value \in {l.text : l \in LiteralFamily}
    /\ context = <<>>
    /\ inferred = null

\* A call inferType(value)
callInferType ==
    /\ outcome = "none"
    /\ inferred' = inferType(value)
    /\ outcome' = "returned"
    /\ UNCHANGED <<eventVars, value, context, types, returned, lookup>>

NextLiteral == callInferType

SpecLiteral == InitLiteral /\ [][NextLiteral]_vars

\* C11: inferType returns the literal's own type for every primitive literal
\* (str, bytes, int, float, bool, list, dict, set) and null for every bare
\* identifier.
C11_LiteralOwnType == outcome = "returned" => inferred = OwnType(value)

(***************************************************************************)
(* getSymbols (parseSymbols) called on one text after the other, with      *)
(* documents validated in between.                                         *)
(***************************************************************************)
MaxCalls == 3

\* Texts that name struct types: one declares P and uses it, one uses P and Q
\* without declaring them, one declares Q
SymbolDocs ==
    {<<"P p = 1">>,
     <<"struct P {", "  int x", "}", "P p = P(1)">>,
     <<"int f(P a, Q b) {}", "Q q = 2">>,
     <<"struct Q {", "}", "Q g() {}">>}

\* parseSymbols with types.push(...structNames) in place of the copy
typesAfterPush(doc) ==
    types \o Flatten([k \in 1..LineCount(doc) |->
                        IF structMatch(Line(doc, k - 1)).ok
                        THEN <<structMatch(Line(doc, k - 1)).name>> ELSE <<>>])

\* What a call parseSymbols(doc) leaves in the module's array types:
\* [...types, ...structNames] is a copy, and nothing writes to types
typesAfter(doc) == types

\* A call getSymbols(doc) for a text out of docs
getSymbols(docs) ==
    /\ Len(returned) < MaxCalls
    /\ \E doc \in docs :
          /\ returned' = Append(returned, [text |-> doc, symbols |-> parseSymbols(doc)])
          /\ types' = typesAfter(doc)
    /\ UNCHANGED <<eventVars, outcome, value, context, inferred, lookup>>

NextSymbols ==
    \/ getSymbols(SymbolDocs)
    \/ onDidOpenTextDocument(SymbolDocs)
    \/ onDidChangeTextDocument(SymbolDocs)
    \/ onDidChangeActiveTextEditor
    \/ validateDocumentEnhanced

SpecSymbols == Init /\ [][NextSymbols]_vars

\* C12: two calls of getSymbols on identical text return equal symbol lists,
\* whatever was parsed or validated between them.
C12_Deterministic ==
    \A i, j \in DOMAIN returned :
        returned[i].text = returned[j].text => returned[i].symbols = returned[j].symbols

\* P p = 1 was parsed, then the text that declares struct P was parsed and a
\* document was validated, then P p = 1 was parsed again
C12_Witness ==
    /\ Len(returned) = 3
    /\ returned[1].text = <<"P p = 1">>
    /\ returned[2].text = <<"struct P {", "  int x", "}", "P p = P(1)">>
    /\ returned[3].text = <<"P p = 1">>
    /\ outcome = "published"
    /\ document = <<"struct Q {", "}", "Q g() {}">>

(***************************************************************************)
(* Validation passes over documents with core, Python interop and metrics  *)
(* diagnostics.                                                            *)
(***************************************************************************)
\* An unused import and a truncating assignment; a call into a module that is
\* not imported; a call with one argument too many; the same call of a
\* variadic function, and one of a function with two variadic parameters; a
\* function nested five braces deep; an import in use; a used import with an
\* alias; a document with nothing to report
PassDocs ==
    {<<"py_import os", "int x = 3.5">>,
     <<"py_import np", "py_call(\"zz\", \"f\")", "np">>,
     <<"void f(int a) {}", "f(1, 2)">>,
     <<"void f(int *a) {}", "f(1, 2)">>,
     <<"void f(int *a, str *b) {}", "f(1)">>,
     <<"void g() {{{{{", "}}}}}", "g()">>,
     <<"py_import os", "println(os)">>,
     <<"py_import numpy as np", "println(np)">>,
     <<"println(1)">>}

\* The extension is active, no document is open, bursts are recorded
InitPasses ==
    /\ types = TypeNames
    /\ returned = <<>>
    /\ document = <<>>
    /\ diagnosticCollection = <<>>
    /\ outcome = "none"
    /\ timeout = FALSE
    /\ importCache = <<>>
    /\ symbolCache = <<>>
    /\ lookup = NoLookup
    /\ burst = NoBurst
    /\ InitWorkspace
    /\ value = ""
    /\ context = <<>>
    /\ inferred = null

NextPasses ==
    \/ onDidOpenTextDocument(PassDocs)
    \/ onDidChangeTextDocument(PassDocs)
    \/ onDidChangeActiveTextEditor
    \/ validateDocumentEnhanced

SpecPasses == InitPasses /\ [][NextPasses]_vars

\* What a pass of validateDocument over doc computes, and what the enhanced
\* pass computes on top of it
CoreDiagnostics(doc) == validateDocument(doc).diagnostics

EnhancedDiagnostics(doc) ==
    CoreDiagnostics(doc)
    \o createPythonInteropDiagnostics(doc, getImports(doc, <<>>))
    \o createMetricsDiagnostics(doc)

\* C13: after every validation pass the published set of the document holds
\* only what that pass computed from the document's current text: the core
\* diagnostics, or, after the enhanced pass, the core diagnostics followed by
\* the Python interop and metrics ones, none of them twice.
C13_ReplacedEachPass ==
    document # <<>> =>
        \/ diagnosticCollection = CoreDiagnostics(document)
        \/ diagnosticCollection = EnhancedDiagnostics(document)

\* C14 as stated: in a burst of change events validateDocument does not run
\* at the events; it runs once, when the timer fires behind the burst.
C14_ValidatorOncePerBurst ==
    (burst.observed /\ burst.events >= 1) =>
        burst.runs = (IF burst.fired THEN 1 ELSE 0)

\* C14: validateDocument runs at every change event, on the text the event
\* leaves; only the enhanced pass is debounced: a change event whose
\* validateDocument returns arms the one timer, and when the timer fires
\* behind a burst of n events validateDocument has run n + 1 times, the last
\* time on the latest text.
C14_EnhancedPassDebounced ==
    (burst.observed /\ burst.events >= 1) =>
        /\ burst.runs = burst.events + (IF burst.fired THEN 1 ELSE 0)
        /\ burst.last = document
        /\ (~burst.fired /\ outcome = "published") => timeout
        /\ burst.fired => ~timeout

C14_Witness ==
    /\ burst.observed
    /\ burst.events = 3
    /\ burst.runs = 4
    /\ burst.fired
    /\ outcome = "published"
    /\ document = <<"py_import os", "int x = 3.5">>
    /\ Len(diagnosticCollection) > Len(CoreDiagnostics(document))

(***************************************************************************)
(* workspaceSymbols.ts: WorkspaceSymbolProvider and its cache; the lookups *)
(* of the two per-document caches, and the deletion of the file.           *)
(***************************************************************************)
\* text.match(/^\s*(int|float|str|bool|list|dict|any|pyobject)\s+(\w+)\s*=/)
varMatch(text) ==
    With(Scan(text, 1, TypedHead \o <<Star(SpaceChars), One({"="})>>),
         LAMBDA p : [ok   |-> Matched(p) /\ Group(text, p, 2) \in metricTypes \ {"void"},
                     name |-> Group(text, p, 4)])

\* What one match pushes
workspaceSymbol(m, type, i) ==
    IF m.ok THEN <<[name |-> m.name, type |-> type, line |-> i]>> ELSE <<>>

\* The body of the loop of getFileSymbols for line i
symbolsOfLine(text, i) ==
    workspaceSymbol(funcMatch(text), "function", i)
    \o workspaceSymbol(structMatch(text), "struct", i)
    \o workspaceSymbol(varMatch(text), "variable", i)

\* getFileSymbols, given symbolCache's entry for the file (<<>>: none)
getFileSymbols(doc, cached) ==
    IF cached # <<>> THEN cached[1]
    ELSE Flatten([k \in 1..LineCount(doc) |-> symbolsOfLine(Line(doc, k - 1), k - 1)])

lookedUp(cache, entry) == lookup' = [cache |-> cache, text |-> document, entry |-> entry]

\* providePythonCompletions and the other callers of getImports(document):
\* the entry is returned, and stored when it was not there
lookupImports(imports) == lookedUp("importCache", imports) /\ importCache' = <<imports>>

providePythonCompletions ==
    /\ document # <<>>
    /\ lookupImports(getImports(document, importCache))
    /\ UNCHANGED <<document, diagnosticCollection, outcome, timeout, symbolCache, burst,
                   value, context, inferred, types, returned, workspaceVars, pythonCall>>

\* provideWorkspaceSymbols, for the file of the document
lookupSymbols(symbols) == lookedUp("symbolCache", symbols) /\ symbolCache' = <<symbols>>

provideWorkspaceSymbols ==
    /\ document # <<>>
    /\ lookupSymbols(getFileSymbols(document, symbolCache))
    /\ UNCHANGED <<document, diagnosticCollection, outcome, timeout, importCache, burst,
                   value, context, inferred, types, returned, workspaceVars, pythonCall>>

\* vscode.workspace.onDidDeleteFiles, for the file of the document, deleted
\* while no timer is armed: provider.clearCache(uri) of workspaceSymbols.ts is
\* the one listener.  A file of the same uri may be opened afterwards.
onDidDeleteFiles ==
    /\ document # <<>>
    /\ ~timeout
    /\ document' = <<>>
    /\ symbolCache' = <<>>
    /\ UNCHANGED <<diagnosticCollection, outcome, timeout, importCache, burst, callVars>>

\* An import and a variable; an import with an alias; a call of a variadic
\* function; a struct and neither import nor function
CacheDocs ==
    {<<"py_import os", "int x = 3.5">>,
     <<"py_import numpy as np", "println(np)">>,
     <<"void f(int *a) {}", "f(1, 2)">>,
     <<"struct P {", "}">>}

NextCaches ==
    \/ onDidOpenTextDocument(CacheDocs)
    \/ onDidChangeTextDocument(CacheDocs)
    \/ onDidChangeActiveTextEditor
    \/ validateDocumentEnhanced
    \/ providePythonCompletions
    \/ provideWorkspaceSymbols
    \/ onDidDeleteFiles

SpecCaches == Init /\ [][NextCaches]_vars

\* C15: a lookup of the Python import cache or of the workspace symbol cache
\* for the document returns what is computed from the text the document has
\* at the time of the lookup, whatever lookups, edits and deletions came
\* before.
C15_NoStaleEntry ==
    /\ lookup.cache = "importCache" => lookup.entry = getImports(lookup.text, <<>>)
    /\ lookup.cache = "symbolCache" => lookup.entry = getFileSymbols(lookup.text, <<>>)

\* The part of C15 that is about the workspace symbol cache alone
C15_NoStaleSymbols ==
    lookup.cache = "symbolCache" => lookup.entry = getFileSymbols(lookup.text, <<>>)

(***************************************************************************)
(* Documents in which one side of a type check is any: a parameter, a      *)
(* struct field, a variable or a return type declared any, or a value      *)
(* typed any.  line is the line the check reports on.                      *)
(***************************************************************************)
\* How a parameter is declared any: typed, untyped, variadic
AnyParams == {"any a", "a", "any *a"}

AnyDeclared == {"int", "str", "float"}

AnyCall(param, arg) ==
    [doc |-> <<"void f(" \o param \o ") {}", "f(" \o arg[1] \o ")">>,
     line |-> 1, variadic |-> includes(param, "*")]

AnyField(arg) ==
    [doc |-> <<"struct P {", "  any x", "}", "P p = P(" \o arg[1] \o ")">>,
     line |-> 3, variadic |-> FALSE]

AnyVariable(arg) == [doc |-> <<"any x = " \o arg[1]>>, line |-> 0, variadic |-> FALSE]

AnyReturnType(arg) ==
    [doc |-> <<"any f() {", "  return " \o arg[1], "}">>, line |-> 1, variadic |-> FALSE]

\* A value typed any that is assigned to a variable or returned as a t: the
\* result of py_call, a variable declared any, a parameter declared any
AnyValues(t) ==
    {[doc |-> <<t \o " y = py_call(\"m\", \"f\")">>, line |-> 0, variadic |-> FALSE],
     [doc |-> <<"any v = 1", t \o " y = v">>, line |-> 1, variadic |-> FALSE],
     [doc |-> <<t \o " f() {", "  return py_call(\"m\", \"f\")", "}">>,
      line |-> 1, variadic |-> FALSE]}
    \cup UNION {{[doc |-> <<"void g(" \o param \o ") {", "  " \o t \o " y = a", "}">>,
                  line |-> 1, variadic |-> includes(param, "*")],
                 [doc |-> <<t \o " g(" \o param \o ") {", "  return a", "}">>,
                  line |-> 1, variadic |-> includes(param, "*")]} : param \in AnyParams}

AnyFamily ==
    {AnyCall(param, arg) : param \in AnyParams, arg \in ArgLiterals}
    \cup {AnyField(arg) : arg \in ArgLiterals}
    \cup {AnyVariable(arg) : arg \in ArgLiterals}
    \cup {AnyReturnType(arg) : arg \in ArgLiterals}
    \cup UNION {AnyValues(t) : t \in AnyDeclared}

AnyDocs == {e.doc : e \in AnyFamily}

AnyEntry(doc) == CHOOSE e \in AnyFamily : e.doc = doc

NextAny ==
    \/ onDidOpenTextDocument(AnyDocs)
    \/ onDidChangeTextDocument(AnyDocs)
    \/ onDidChangeActiveTextEditor
    \/ validateDocumentEnhanced

SpecAny == Init /\ [][NextAny]_vars

\* The diagnostics of the four type checks
MismatchCodes == {"type-mismatch", "implicit-cast", "return-type-mismatch"}

MismatchMessages ==
    {"Implicit conversion in struct field", "Implicit conversion in function parameter",
     "Type mismatch in struct field", "Type mismatch: expected, but got"}

IsMismatch(d) == d.code \in MismatchCodes \/ d.message \in MismatchMessages

Mismatches(i) == SelectSeq(DiagnosticsOnLine(i), IsMismatch)

\* C16: any is never flagged as mismatched: where the parameter, the struct
\* field, the variable or the return type is declared any, or the value is
\* typed any, the published diagnostics hold no call-site argument,
\* struct-field, assignment or return-type diagnostic for that line.
C16_AnyNeverFlagged ==
    (outcome = "published" /\ document \in AnyDocs) =>
        Mismatches(AnyEntry(document).line) = <<>>

\* The part of C16 for what is not declared variadic
C16_PlainAnyNeverFlagged ==
    (outcome = "published" /\ document \in AnyDocs /\ ~AnyEntry(document).variadic) =>
        Mismatches(AnyEntry(document).line) = <<>>

(***************************************************************************)
(* Documents made of lines that look like more than one declaration.       *)
(***************************************************************************)
MaxLines == 3

\* A variable initialized by a call; a function; a function with '=' between
\* its parentheses; a struct; a variable of the struct's type; a function
\* with a declaration in its body, on one line; a struct named struct, and a
\* variable and a function of that type
SymbolLines ==
    {"int x = f(1)", "int f(int a) {}", "int g(a = 1) {}", "struct P {",
     "P p = P(1)", "P mk() { P q = P(1) }", "struct struct {", "struct s = 1",
     "struct h() {}"}

LineDocs == SeqsUpTo(SymbolLines, MaxLines) \ {<<>>}

\* The first call of getSymbols, for a document out of docs
getSymbolsOnce(docs) == returned = <<>> /\ getSymbols(docs)

NextLines == getSymbolsOnce(LineDocs)

SpecLines == Init /\ [][NextLines]_vars

\* C17: the symbols parseSymbols returns are ordered by line and no line
\* yields more than one of them: the lines of the returned list are strictly
\* increasing.
C17_OneSymbolPerLine ==
    \A c \in DOMAIN returned :
        \A k \in 1..(Len(returned[c].symbols) - 1) :
            returned[c].symbols[k].line < returned[c].symbols[k + 1].line

C17_Witness ==
    /\ Len(returned) = 1
    /\ returned[1].text = <<"struct struct {", "struct h() {}", "int x = f(1)">>
    /\ Len(returned[1].symbols) = 3
    /\ returned[1].symbols[2].type = "function"
    /\ returned[1].symbols[3].type = "variable"

(***************************************************************************)
(* Documents with a function g, a parameter or a local variable x of g, a  *)
(* global variable x of another type, and in g the assignment `D y = x`.   *)
(***************************************************************************)
ScopeTypes == {"int", "str", "float"}

LiteralOf(t) == IF t = "int" THEN "1" ELSE IF t = "str" THEN "\"a\"" ELSE "2.5"

GlobalLine(t) == t \o " x = " \o LiteralOf(t)

\* g with x as a parameter, or as a local variable, and the assignment
ScopeFunction(kind, local, declared) ==
    IF kind = "parameter"
    THEN <<"void g(" \o local \o " x) {", "  " \o declared \o " y = x", "}">>
    ELSE <<"void g() {", "  " \o local \o " x = " \o LiteralOf(local),
           "  " \o declared \o " y = x", "}">>

\* line: the line of the assignment
ScopeEntry(kind, local, global, declared, globalFirst) ==
    [kind |-> kind, local |-> local, global |-> global, declared |-> declared,
     globalFirst |-> globalFirst,
     doc |-> IF globalFirst
             THEN <<GlobalLine(global)>> \o ScopeFunction(kind, local, declared)
             ELSE ScopeFunction(kind, local, declared) \o <<GlobalLine(global)>>,
     line |-> (IF globalFirst THEN 1 ELSE 0) + (IF kind = "parameter" THEN 1 ELSE 2)]

ScopeFamily ==
    UNION {{ScopeEntry(kind, local, global, declared, globalFirst) :
                kind \in {"parameter", "local"}, global \in ScopeTypes \ {local},
                declared \in ScopeTypes, globalFirst \in BOOLEAN} : local \in ScopeTypes}

ScopeDocs == {e.doc : e \in ScopeFamily}

ScopeEntryOf(doc) == CHOOSE e \in ScopeFamily : e.doc = doc

NextScope ==
    \/ onDidOpenTextDocument(ScopeDocs)
    \/ onDidChangeTextDocument(ScopeDocs)
    \/ onDidChangeActiveTextEditor
    \/ validateDocumentEnhanced

SpecScope == Init /\ [][NextScope]_vars

\* What the assignment check publishes for line e.line when x is typed t
TypedAs(e, t) == Mismatches(e.line) = assignmentDiagnostics(e.line, e.declared, t)

\* C18: in the assignment check an identifier that names a parameter or a
\* local variable of the enclosing function and a global variable is typed
\* as the parameter or local, wherever the global is declared: what is
\* published for `D y = x` is what the check reports for D and that type.
C18_LocalsThenGlobals ==
    (outcome = "published" /\ document \in ScopeDocs) =>
        TypedAs(ScopeEntryOf(document), ScopeEntryOf(document).local)

\* The part of C18 for parameters
C18_ParametersThenGlobals ==
    (outcome = "published" /\ document \in ScopeDocs
        /\ ScopeEntryOf(document).kind = "parameter") =>
        TypedAs(ScopeEntryOf(document), ScopeEntryOf(document).local)

\* What the code does for a local variable: the first declaration of the name
\* in the document types it
C18_FirstDeclarationOfLocal ==
    (outcome = "published" /\ document \in ScopeDocs
        /\ ScopeEntryOf(document).kind = "local") =>
        TypedAs(ScopeEntryOf(document),
                IF ScopeEntryOf(document).globalFirst
                THEN ScopeEntryOf(document).global ELSE ScopeEntryOf(document).local)

(***************************************************************************)
(* Documents with two functions f(O x) and g(I x), g inside f or behind    *)
(* it, and assignments `D y = x` inside and behind them.                   *)
(***************************************************************************)
\* checks: the lines with an assignment, each with the function whose x the
\* innermost open function gives, and the one the outermost gives
NestedShape(outer, inner, declared) ==
    [doc |-> <<"void f(" \o outer \o " x) {",
               "  void g(" \o inner \o " x) {",
               "    " \o declared \o " y = x",
               "  }",
               "  " \o declared \o " z = x",
               "}",
               declared \o " w = x">>,
     checks |-> {[line |-> 2, innermost |-> inner, outermost |-> outer],
                 [line |-> 4, innermost |-> outer, outermost |-> outer],
                 [line |-> 6, innermost |-> null, outermost |-> null]}]

SequentialShape(outer, inner, declared) ==
    [doc |-> <<"void f(" \o outer \o " x) {",
               "}",
               "void g(" \o inner \o " x) {",
               "  " \o declared \o " y = x",
               "}",
               declared \o " w = x">>,
     checks |-> {[line |-> 3, innermost |-> inner, outermost |-> inner],
                 [line |-> 5, innermost |-> null, outermost |-> null]}]

ClosedShape(outer, inner, declared) ==
    [doc |-> <<"void f(" \o outer \o " x) {",
               "  void g(" \o inner \o " x) {}",
               "  " \o declared \o " y = x",
               "}",
               declared \o " w = x">>,
     checks |-> {[line |-> 2, innermost |-> outer, outermost |-> outer],
                 [line |-> 4, innermost |-> null, outermost |-> null]}]

NestFamily ==
    UNION {{[shape |-> NestedShape(outer, inner, declared), declared |-> declared],
            [shape |-> SequentialShape(outer, inner, declared), declared |-> declared],
            [shape |-> ClosedShape(outer, inner, declared), declared |-> declared]} :
               outer \in ScopeTypes, inner \in ScopeTypes, declared \in {"int", "str"}}

NestDocs == {e.shape.doc : e \in NestFamily}

NestEntryOf(doc) == CHOOSE e \in NestFamily : e.shape.doc = doc

NextNest ==
    \/ onDidOpenTextDocument(NestDocs)
    \/ onDidChangeTextDocument(NestDocs)
    \/ onDidChangeActiveTextEditor
    \/ validateDocumentEnhanced

SpecNest == Init /\ [][NextNest]_vars

\* What the assignment check publishes for line i when x is typed t
LineTypedAs(i, declared, t) == Mismatches(i) = assignmentDiagnostics(i, declared, t)

\* C19: the enclosing function of an assignment line is the innermost
\* function whose braces are still open on that line, and a function whose
\* closing brace is above the line is not chosen: x is typed as the parameter
\* of that function, and not at all behind every function.
C19_InnermostFunction ==
    (outcome = "published" /\ document \in NestDocs) =>
        \A c \in NestEntryOf(document).shape.checks :
            LineTypedAs(c.line, NestEntryOf(document).declared, c.innermost)

\* What the code does: the first function of the document that is still open
C19_OutermostFunction ==
    (outcome = "published" /\ document \in NestDocs) =>
        \A c \in NestEntryOf(document).shape.checks :
            LineTypedAs(c.line, NestEntryOf(document).declared, c.outermost)

(***************************************************************************)
(* Bare identifiers, and symbol contexts that declare them or do not.      *)
(***************************************************************************)
IdentifierNames ==
    {"x", "i", "n1", "_t", "count", "total", "order", "handle", "band", "note",
     "color", "standard"}

\* No symbol; one variable of the name; two, a str before an int; a function
\* of the name before a variable of it; a variable of another name
IdentifierContexts(name) ==
    {<<>>,
     parseSymbols(<<"int " \o name \o " = 1">>),
     parseSymbols(<<"str " \o name \o " = \"a\"", "int " \o name \o " = 1">>),
     parseSymbols(<<"int " \o name \o "() {}", "float " \o name \o " = 2.5">>),
     parseSymbols(<<"int " \o name \o "2 = 1">>)}

InitIdentifier ==
    /\ types = TypeNames
    /\ returned = <<>>
    /\ document = <<>>
    /\ diagnosticCollection = <<>>
    /\ outcome = "none"
    /\ timeout = FALSE
    /\ importCache = <<>>
    /\ symbolCache = <<>>
    /\ lookup = NoLookup
    /\ burst = Unobserved
    /\ InitWorkspace
    /\ value \in IdentifierNames
    /\ context \in IdentifierContexts(value)
    /\ inferred = null

SpecIdentifier == InitIdentifier /\ [][NextInfer]_vars

\* The varType of the first variable called name in symbols, null without one
FirstVariableType(symbols, name) ==
    With({k \in 1..Len(symbols) : symbols[k].type = "variable" /\ symbols[k].name = name},
         LAMBDA hits : IF hits = {} THEN null ELSE symbols[Min(hits)].varType)

HasOperatorWord(name) == includes(name, "and") \/ includes(name, "or") \/ includes(name, "not")

\* C20: for a bare identifier inferReturnType returns the varType of the
\* first variable of that name in the context, and null when the context has
\* no variable of that name, whatever the spelling of the identifier.
C20_IdentifierIsVariable ==
    outcome = "returned" => inferred = FirstVariableType(context, value)

\* The part of C20 for names that hold none of and, or, not
C20_IdentifierWithoutOperatorWord ==
    (outcome = "returned" /\ ~HasOperatorWord(value)) =>
        inferred = FirstVariableType(context, value)

\* What the code returns for the names that hold one
C20_OperatorWordIsBool ==
    (outcome = "returned" /\ HasOperatorWord(value)) => inferred = "bool"

(***************************************************************************)
(* inferReturnType on arithmetic expressions without a division.           *)
(***************************************************************************)
\* An integer and a decimal literal, an int and a float variable, a field
\* of type int, a float(...) call
ArithOperands == {"1", "2.5", "n", "r", "p.x", "float(n)"}

ArithOperators == {" + ", " - ", " * ", " ** ", "+"}

ArithFamily == {[a |-> a, b |-> b, text |-> a \o op \o b] :
                   a \in ArithOperands, b \in ArithOperands, op \in ArithOperators}

ArithEntry(text) == CHOOSE e \in ArithFamily : e.text = text

ArithContexts ==
    {<<>>,
     parseSymbols(<<"int n = 4", "float r = 2.5", "struct P {", "  int x", "}",
                    "P p = P(1)">>)}

InitArith ==
    /\ types = TypeNames
    /\ returned = <<>>
    /\ document = <<>>
    /\ diagnosticCollection = <<>>
    /\ outcome = "none"
    /\ timeout = FALSE
    /\ importCache = <<>>
    /\ symbolCache = <<>>
    /\ lookup = NoLookup
    /\ burst = Unobserved
    /\ InitWorkspace
    /\ value \in {e.text : e \in ArithFamily}
    /\ context \in ArithContexts
    /\ inferred = null

SpecArith == InitArith /\ [][NextInfer]_vars

\* Whether the operand makes the expression a float: a decimal literal, a
\* float(...) call, a variable of type float in symbols
IsFloatOperand(operand, symbols) ==
    \/ IsFloatLiteral(operand)
    \/ operand = "float(n)"
    \/ \E k \in 1..Len(symbols) :
          symbols[k].type = "variable" /\ symbols[k].name = operand
              /\ symbols[k].varType = "float"

ArithType(e, symbols) ==
    IF IsFloatOperand(e.a, symbols) \/ IsFloatOperand(e.b, symbols) THEN "float" ELSE "int"

\* C21: an arithmetic expression over + - * ** without a division is float
\* if and only if it holds a decimal literal, a float(...) call or an operand
\* that is a variable of type float, and int otherwise.
C21_FloatIffFloatOperand ==
    outcome = "returned" => inferred = ArithType(ArithEntry(value), context)

\* The part of C21 for expressions without a field access
C21_WithoutFieldAccess ==
    (outcome = "returned" /\ ~includes(value, "p.x")) =>
        inferred = ArithType(ArithEntry(value), context)

\* What the code returns with one
C21_FieldAccessIsFloat ==
    (outcome = "returned" /\ includes(value, "p.x")) => inferred = "float"

(***************************************************************************)
(* inferReturnType on concatenations: `+` with a quoted string or str(...) *)
(***************************************************************************)
\* A str variable, quoted strings, a str(...) call
ConcatOperands == {"name", "\"!\"", "'!'", "\"a b\"", "str(n)"}

IsStringOperand(operand) == operand # "name"

Concatenations ==
    {[a |-> a, b |-> b, text |-> a \o sep \o b] :
        a \in ConcatOperands, b \in ConcatOperands, sep \in {" + ", "+"}}

ConcatFamily == {e \in Concatenations : IsStringOperand(e.a) \/ IsStringOperand(e.b)}

ConcatContexts ==
    {<<>>, parseSymbols(<<"str name = \"x\"", "int n = 4">>)}

InitConcat ==
    /\ types = TypeNames
    /\ returned = <<>>
    /\ document = <<>>
    /\ diagnosticCollection = <<>>
    /\ outcome = "none"
    /\ timeout = FALSE
    /\ importCache = <<>>
    /\ symbolCache = <<>>
    /\ lookup = NoLookup
    /\ burst = Unobserved
    /\ InitWorkspace
    /\ value \in {e.text : e \in ConcatFamily}
    /\ context \in ConcatContexts
    /\ inferred = null

SpecConcat == InitConcat /\ [][NextInfer]_vars

\* C22: an expression that combines `+` with a quoted string or a str(...)
\* call is inferred as str.
C22_ConcatenationIsStr == outcome = "returned" => inferred = "str"

\* What the code returns: str when the expression begins and ends with the
\* same kind of quote or begins with str(, and int otherwise
C22_StrOnlyByFirstCharacters ==
    outcome = "returned" =>
        inferred = (IF \/ startsWith(value, "str(")
                       \/ (startsWith(value, "\"") /\ endsWith(value, "\""))
                       \/ (startsWith(value, "'") /\ endsWith(value, "'"))
                    THEN "str" ELSE "int")

(***************************************************************************)
(* One-line documents: code with or without semicolons, then a comment     *)
(* with or without semicolons.                                             *)
(***************************************************************************)
SemicolonCode == {"", "x", "f()", ";", "x;", "x; y"}

SemicolonComments == {"", "//", "// c", "// c; d", "//;"}

SemicolonFamily ==
    {[code |-> code, text |-> code \o sep \o comment] :
        code \in SemicolonCode, sep \in {"", " "}, comment \in SemicolonComments}

SemicolonDocs == {<<e.text>> : e \in SemicolonFamily}

SemicolonEntry(doc) == CHOOSE e \in SemicolonFamily : <<e.text>> = doc

NextSemicolon ==
    \/ onDidOpenTextDocument(SemicolonDocs)
    \/ onDidChangeTextDocument(SemicolonDocs)
    \/ onDidChangeActiveTextEditor
    \/ validateDocumentEnhanced

SpecSemicolon == Init /\ [][NextSemicolon]_vars

NoSemicolons(i) == WithCode(DiagnosticsOnLine(i), "no-semicolons")

\* C23: a line gets a no-semicolons Error if and only if it holds a ';'
\* outside its // comment, also when a comment follows the ';', and not for a
\* ';' that only the comment holds.
C23_SemicolonOutsideComment ==
    (outcome = "published" /\ document \in SemicolonDocs) =>
        (NoSemicolons(0) # <<>> <=> includes(SemicolonEntry(document).code, ";"))

\* What the code does: the Error for a line that does not begin with //
\* and holds a ';' with no // anywhere behind it
C23_SemicolonWithoutCommentBehind ==
    (outcome = "published" /\ document \in SemicolonDocs) =>
        (NoSemicolons(0) # <<>> <=>
            /\ ~startsWith(trim(document[1]), "//")
            /\ \E k \in 1..Len(document[1]) :
                  Ch(document[1], k) = ";" /\ ~includes(From(document[1], k + 1), "//"))

(***************************************************************************)
(* Documents with one function whose body is never closed, or that has no  *)
(* '{' at all.                                                             *)
(***************************************************************************)
UnclosedValues == {"1", "\"a\"", "2.5"}

UnclosedShapes(t, v) ==
    {<<t \o " f() {", "  return " \o v>>,
     <<t \o " f()", "  return " \o v>>,
     <<t \o " f() {", "  if (x) {", "    return " \o v, "  }">>,
     <<t \o " f() {", "  return " \o v, "{ }">>,
     <<t \o " f() {">>,
     <<t \o " f()">>}

UnclosedDocs == UNION {UnclosedShapes(t, v) : t \in ScopeTypes, v \in UnclosedValues}

NextUnclosed ==
    \/ onDidOpenTextDocument(UnclosedDocs)
    \/ onDidChangeTextDocument(UnclosedDocs)
    \/ onDidChangeActiveTextEditor
    \/ validateDocumentEnhanced

SpecUnclosed == Init /\ [][NextUnclosed]_vars

Published(code) == WithCode(diagnosticCollection, code)

\* C24: a function whose closing brace is not found before the end of the
\* document is left out of the return analysis: neither a
\* return-type-mismatch nor a missing-return diagnostic is published for it.
C24_UnclosedIsExcluded ==
    (outcome = "published" /\ document \in UnclosedDocs) =>
        Published("return-type-mismatch") = <<>> /\ Published("missing-return") = <<>>

\* What the code does: no return-type-mismatch, and one missing-return
\* Warning on the declaration line, with or without a return behind it
C24_UnclosedMissesReturn ==
    (outcome = "published" /\ document \in UnclosedDocs) =>
        /\ Published("return-type-mismatch") = <<>>
        /\ Len(Published("missing-return")) = 1
        /\ Published("missing-return")[1].line = 0

(***************************************************************************)
(* Functions whose body holds a string literal, with or without a brace in *)
(* it, before a return or before an assignment from a parameter.           *)
(***************************************************************************)
BraceStrings == {"\"x\"", "\"}\"", "\"{\"", "'}'", "f\"{n}\""}

BraceShapes(t, str, v) ==
    {<<t \o " f() {", "  str s = " \o str, "  return " \o v, "}">>,
     <<t \o " f(str a) {", "  print(" \o str \o ")", "  int y = a", "  return " \o v, "}">>,
     <<"void g(" \o t \o " a) {", "  str s = " \o str, "  " \o t \o " y = " \o v, "  int z = a", "}">>}

BraceDocs ==
    UNION {BraceShapes(t, str, v) : t \in {"int", "str"}, str \in BraceStrings,
                                    v \in {"1", "\"a\""}}

NextBraces ==
    \/ onDidOpenTextDocument(BraceDocs)
    \/ onDidChangeTextDocument(BraceDocs)
    \/ onDidChangeActiveTextEditor
    \/ validateDocumentEnhanced

SpecBraces == Init /\ [][NextBraces]_vars

\* The document with every line put through removeStringsFromLine
Stripped(doc) == [k \in 1..Len(doc) |-> removeStringsFromLine(doc[k])]

FunctionsOf(doc) == SeqToSet(ofType(parseSymbols(doc), "function"))

\* The three scans give for func what they give on the stripped text
SameExtent(doc, func) ==
    /\ funcEndLine(doc, func) = funcEndLine(Stripped(doc), func)
    /\ \A i \in 0..(LineCount(doc) - 1) :
           stillInside(doc, func, i) = stillInside(Stripped(doc), func, i)
    /\ findFunctionBody(doc, func.line) = findFunctionBody(Stripped(doc), func.line)

\* C25: every scan that finds a function's extent counts braces only after
\* the string literals are stripped: a brace inside a string literal changes
\* neither the end line nor the enclosing function.
C25_BracesInStringsNotCounted ==
    (outcome = "published" /\ document \in BraceDocs) =>
        \A func \in FunctionsOf(document) : SameExtent(document, func)

\* What holds: findFunctionBody ends where the braces outside strings close
C25_FindFunctionBodyStrips ==
    (outcome = "published" /\ document \in BraceDocs) =>
        \A func \in FunctionsOf(document) :
            findFunctionBody(document, func.line) =
                <<[start |-> func.line, end |-> LineCount(document) - 1]>>

(***************************************************************************)
(* isInsideString (utils.ts): the quote state after the characters before  *)
(* the position.  skip is the i++ of the turn that starts an f-string.     *)
(***************************************************************************)
NoQuote == [inDoubleQuote |-> FALSE, inSingleQuote |-> FALSE, inFString |-> FALSE,
            inFStringBrace |-> FALSE, skip |-> 0]

\* Toggle quote state (but not inside f-string braces)
toggleQuote(s, char) ==
    IF s.inFStringBrace THEN s
    ELSE IF char = "\"" /\ ~s.inSingleQuote
    THEN [s EXCEPT !.inDoubleQuote = ~@, !.inFString = IF s.inDoubleQuote THEN FALSE ELSE @]
    ELSE IF char = "'" /\ ~s.inDoubleQuote
    THEN [s EXCEPT !.inSingleQuote = ~@, !.inFString = IF s.inSingleQuote THEN FALSE ELSE @]
    ELSE s

\* Handle braces in f-strings
fStringBraceFlag(s, char) ==
    IF s.inFString /\ (s.inDoubleQuote \/ s.inSingleQuote)
    THEN IF char = "{" THEN [s EXCEPT !.inFStringBrace = TRUE]
         ELSE IF char = "}" THEN [s EXCEPT !.inFStringBrace = FALSE]
         ELSE s
    ELSE s

\* One turn of the loop at the 1-based index i of charsBefore
insideStep(s, charsBefore, i) ==
    IF Ch(charsBefore, i - 1) = "\\" THEN s
    ELSE IF Ch(charsBefore, i) = "f" /\ i + 1 <= Len(charsBefore)
            /\ Ch(charsBefore, i + 1) \in Quotes
    THEN [s EXCEPT !.inFString = TRUE, !.skip = 1,
                   !.inDoubleQuote = IF Ch(charsBefore, i + 1) = "\"" THEN TRUE ELSE @,
                   !.inSingleQuote = IF Ch(charsBefore, i + 1) = "\"" THEN @ ELSE TRUE]
    ELSE toggleQuote(fStringBraceFlag(s, Ch(charsBefore, i)), Ch(charsBefore, i))

RECURSIVE insideWalk(_, _, _)
insideWalkAfter(charsBefore, i, s) ==
    insideWalk(charsBefore, i + 1 + s.skip, [s EXCEPT !.skip = 0])
insideWalk(charsBefore, i, s) ==
    IF i > Len(charsBefore) THEN s
    ELSE insideWalkAfter(charsBefore, i, insideStep(s, charsBefore, i))

insideResult(s) == (s.inDoubleQuote \/ s.inSingleQuote) /\ ~s.inFStringBrace

isInsideString(line, character) ==
    insideResult(insideWalk(SubSeq(line, 1, character), 1, NoQuote))

(***************************************************************************)
(* Lines with one f-string, with and without nested braces in its blocks   *)
(***************************************************************************)
FlatLines ==
    {"f\"a{n}b\"", "f\"{n}\"", "x = f\"{a}{b}\"", "f'a{n}b'", "print(f\"v={n} ok\")",
     "f\"ab\"", "s = f\"{a + b}!\""}

NestedLines ==
    {"f\"a{ {1} }b\"", "f\"{ {a: {b}} }c\"", "f'{ {n} + 1}'", "print(f\"v={d[{k}]} ok\")",
     "f\"{{n}}\""}

FStringLines == FlatLines \cup NestedLines

InitStrings ==
    /\ types = TypeNames
    /\ returned = <<>>
    /\ document = <<>>
    /\ diagnosticCollection = <<>>
    /\ outcome = "none"
    /\ timeout = FALSE
    /\ importCache = <<>>
    /\ symbolCache = <<>>
    /\ lookup = NoLookup
    /\ burst = Unobserved
    /\ InitWorkspace
    /\ value \in FStringLines
    /\ context = <<>>
    /\ inferred = null

\* A caller asks about one position of the line
callIsInsideString ==
    /\ outcome = "none"
    /\ \E character \in 0..Len(value) :
           returned' = <<[position |-> character,
                          inside |-> isInsideString(value, character)]>>
    /\ outcome' = "returned"
    /\ UNCHANGED <<eventVars, value, context, inferred, types, lookup>>

NextStrings == callIsInsideString

SpecStrings == InitStrings /\ [][NextStrings]_vars

\* The interpolation depth after the characters of line before index k:
\* -1 outside the f-string, 0 in its literal text, d > 0 inside d open braces
RECURSIVE depthWalk(_, _, _, _, _)
depthWalk(line, k, character, depth, quote) ==
    IF k > character THEN depth
    ELSE IF depth < 0
    THEN IF Ch(line, k) \in Quotes /\ Ch(line, k - 1) = "f"
         THEN depthWalk(line, k + 1, character, 0, Ch(line, k))
         ELSE depthWalk(line, k + 1, character, depth, quote)
    ELSE IF depth = 0 /\ Ch(line, k) = quote
    THEN depthWalk(line, k + 1, character, -1, "")
    ELSE IF Ch(line, k) = "{" THEN depthWalk(line, k + 1, character, depth + 1, quote)
    ELSE IF Ch(line, k) = "}" /\ depth > 0
    THEN depthWalk(line, k + 1, character, depth - 1, quote)
    ELSE depthWalk(line, k + 1, character, depth, quote)

InterpolationDepth(line, character) == depthWalk(line, 1, character, -1, "")

\* C26: isInsideString tracks the interpolation of an f-string by depth: a
\* position inside a {...} block is not inside a string until the matching
\* '}' brings the depth back to zero, nested braces included, and a position
\* in the literal text of the f-string is inside a string.
C26_InterpolationByDepth ==
    outcome = "returned" =>
        (returned[1].inside <=> InterpolationDepth(value, returned[1].position) = 0)

\* What holds: the same for f-strings whose blocks hold no nested braces
C26_FlatInterpolation ==
    (outcome = "returned" /\ value \in FlatLines) =>
        (returned[1].inside <=> InterpolationDepth(value, returned[1].position) = 0)

\* What the code does: the first '}' of a block ends it
C26_FirstClosingBraceEndsBlock ==
    (outcome = "returned" /\ InterpolationDepth(value, returned[1].position) > 0) =>
        (returned[1].inside <=>
            \E k \in 1..returned[1].position :
                /\ Ch(value, k) = "}"
                /\ \A j \in (k + 1)..returned[1].position : Ch(value, j) # "{")

(***************************************************************************)
(* parseDocstrings: the Map from target line to documentation, as the      *)
(* sequence of its entries in insertion order.                             *)
(***************************************************************************)
\* nextLine.match(/^\s*\/\/\//)
docstringLine(text) == startsWithAt(text, "///", Span(text, 1, SpaceChars))

\* line.text.match(/^\s*\/\/\/\s*(.+)$/): (.+) needs one character behind ///
docstringMatch(text) ==
    With(Span(text, 1, SpaceChars),
         LAMBDA j : [ok |-> startsWithAt(text, "///", j) /\ j + 3 <= Len(text),
                     doc |-> trim(From(text, j + 3))])

\* Skip additional docstring lines
RECURSIVE targetLine(_, _)
targetLineNoSkip(doc, targetLine0) == targetLine0
targetLine(doc, targetLine0) ==
    IF targetLine0 < LineCount(doc) /\ docstringLine(Line(doc, targetLine0))
    THEN targetLine(doc, targetLine0 + 1)
    ELSE targetLine0

docstringsGet(docstrings, key) == SelectSeq(docstrings, LAMBDA e : e.key = key)

docstringsSet(docstrings, existing, target, text) ==
    mapSet(docstrings,
           [key |-> target, line |-> target,
            documentation |-> IF existing # <<>>
                              THEN existing[1].documentation \o "\n\n" \o text
                              ELSE text])

docstringOfLine(doc, docstrings, m, target) ==
    IF m.ok /\ target < LineCount(doc)
    THEN docstringsSet(docstrings, docstringsGet(docstrings, target), target, m.doc)
    ELSE docstrings

RECURSIVE parseDocstringsFrom(_, _, _)
parseDocstringsFrom(doc, i, docstrings) ==
    IF i >= LineCount(doc) THEN docstrings
    ELSE parseDocstringsFrom(doc, i + 1,
             docstringOfLine(doc, docstrings, docstringMatch(Line(doc, i)),
                             targetLine(doc, i + 1)))

parseDocstrings(doc) == parseDocstringsFrom(doc, 0, <<>>)

(***************************************************************************)
(* Documents of docstring lines with text, without text, with blanks only  *)
(* behind the slashes, and of other lines.                                 *)
(***************************************************************************)
MaxDocLines == 3

DocstringAlphabet == {"/// a", "  ///b c", "///", "/// ", "int x = 1", ""}

DocstringDocs == SeqsUpTo(DocstringAlphabet, MaxDocLines)

callParseDocstrings ==
    /\ outcome = "none"
    /\ \E doc \in DocstringDocs :
           returned' = <<[text |-> doc, docstrings |-> parseDocstrings(doc)]>>
    /\ outcome' = "returned"
    /\ UNCHANGED <<eventVars, value, context, inferred, types, lookup>>

NextDocstrings == callParseDocstrings

SpecDocstrings == Init /\ [][NextDocstrings]_vars

\* The 0-based lines b that end a maximal run of /// lines of doc
RunEnds(doc) ==
    {b \in 0..(LineCount(doc) - 1) :
        /\ docstringLine(Line(doc, b))
        /\ b + 1 = LineCount(doc) \/ ~docstringLine(Line(doc, b + 1))}

\* The first line of the run that ends at b
RunStart(doc, b) ==
    Min({a \in 0..b : \A k \in a..b : docstringLine(Line(doc, k))})

\* The doc texts of the lines a..b that have one: what is behind the ///,
\* trimmed, of the lines that have a character behind it
RECURSIVE RunTexts(_, _, _)
RunTexts(doc, a, b) ==
    IF a > b THEN <<>>
    ELSE (IF docstringMatch(Line(doc, a)).ok THEN <<docstringMatch(Line(doc, a)).doc>>
          ELSE <<>>) \o RunTexts(doc, a + 1, b)

NonEmpty(texts) == SelectSeq(texts, LAMBDA t : t # "")

Entries(docstrings) ==
    {[key |-> docstrings[k].key, documentation |-> docstrings[k].documentation] :
        k \in 1..Len(docstrings)}

\* One entry per run that is followed by a line, with the run's non-empty texts
RunEntries(doc) ==
    {[key |-> b + 1,
      documentation |-> JoinWith(NonEmpty(RunTexts(doc, RunStart(doc, b), b)), "\n\n")] :
        b \in {e \in RunEnds(doc) : e + 1 < LineCount(doc)}}

\* One entry per run that is followed by a line and has a line with a
\* character behind the ///, with the trimmed texts of those lines
TextRunEntries(doc) ==
    {[key |-> b + 1,
      documentation |-> JoinWith(RunTexts(doc, RunStart(doc, b), b), "\n\n")] :
        b \in {e \in RunEnds(doc) :
                  e + 1 < LineCount(doc) /\ RunTexts(doc, RunStart(doc, e), e) # <<>>}}

KeysDistinct(docstrings) ==
    \A j, k \in 1..Len(docstrings) : docstrings[j].key = docstrings[k].key => j = k

\* C27 as stated: parseDocstrings maps each maximal run of /// lines to the
\* first line behind it that is not a /// line: one key per run that is
\* followed by a line, no key is a /// line, the value is the run's non-empty
\* doc texts joined in source order, and a run that ends the document gives
\* no entry.
C27_OneEntryPerRun ==
    outcome = "returned" =>
        /\ KeysDistinct(returned[1].docstrings)
        /\ Entries(returned[1].docstrings) = RunEntries(returned[1].text)
        /\ \A e \in Entries(returned[1].docstrings) :
               ~docstringLine(Line(returned[1].text, e.key))

\* C27 amended: the same for the runs that have a line with at least one
\* character behind the ///; the value is the trimmed texts behind the /// of
\* those lines joined in source order; a run without such a line gives no
\* entry.
C27_OneEntryPerRunWithText ==
    outcome = "returned" =>
        /\ KeysDistinct(returned[1].docstrings)
        /\ Entries(returned[1].docstrings) = TextRunEntries(returned[1].text)
        /\ \A e \in Entries(returned[1].docstrings) :
               /\ e.key < LineCount(returned[1].text)
               /\ ~docstringLine(Line(returned[1].text, e.key))

\* A run of two lines with text and a line without, followed by a line, and a
\* run that ends the document
C27_Witness ==
    /\ outcome = "returned"
    /\ returned[1].text = <<"/// a", "  ///b c", "int x = 1">>
    /\ Entries(returned[1].docstrings) = {[key |-> 2, documentation |-> "a\n\nb c"]}

(***************************************************************************)
(* Declarations  void f(TOKENS)  over parameter tokens of the four forms   *)
(* the parser knows and of two it does not: a struct type that is not      *)
(* declared in the document, and a default value.                          *)
(***************************************************************************)
MaxTokens == 3

KnownTokens ==
    {[text |-> "int a", name |-> "a", type |-> "int"],
     [text |-> "str *b", name |-> "b", type |-> "str*"],
     [text |-> "dict **k", name |-> "k", type |-> "dict**"],
     [text |-> "c", name |-> "c", type |-> "any"]}

OtherTokens ==
    {[text |-> "P p", name |-> "p", type |-> "P"],
     [text |-> "int d = 1", name |-> "d", type |-> "int"]}

ParamTokens == KnownTokens \cup OtherTokens

ParamFamily ==
    {[tokens |-> ts,
      doc |-> <<"void f(" \o JoinWith([k \in 1..Len(ts) |-> ts[k].text], ", ") \o ")">>] :
        ts \in SeqsUpTo(ParamTokens, MaxTokens) \ {<<>>}}

ParamDocs == {e.doc : e \in ParamFamily}

ParamEntry(doc) == CHOOSE e \in ParamFamily : e.doc = doc

NextParams == getSymbolsOnce(ParamDocs)

SpecParams == Init /\ [][NextParams]_vars

\* The parameters of the one function of the returned symbols
ParametersOf(symbols) == ofType(symbols, "function")[1].parameters

\* C28: the parameters list of a recognized declaration has exactly one
\* entry per comma-separated token of the parameter text, in declaration
\* order, so that the i-th argument of a call meets the i-th parameter.
C28_OneParameterPerToken ==
    \A c \in DOMAIN returned :
        /\ Len(ofType(returned[c].symbols, "function")) = 1
        /\ Len(ParametersOf(returned[c].symbols)) = Len(ParamEntry(returned[c].text).tokens)
        /\ \A i \in 1..Len(ParametersOf(returned[c].symbols)) :
               ParametersOf(returned[c].symbols)[i].name
                   = ParamEntry(returned[c].text).tokens[i].name

\* What holds: one entry, in order, per token of the four known forms; the
\* other tokens leave no entry and the later parameters move up
C28_OneParameterPerKnownToken ==
    \A c \in DOMAIN returned :
        /\ Len(ofType(returned[c].symbols, "function")) = 1
        /\ ParametersOf(returned[c].symbols)
             = [k \in 1..Len(SelectSeq(ParamEntry(returned[c].text).tokens,
                                       LAMBDA t : t \in KnownTokens)) |->
                   [type |-> SelectSeq(ParamEntry(returned[c].text).tokens,
                                       LAMBDA t : t \in KnownTokens)[k].type,
                    name |-> SelectSeq(ParamEntry(returned[c].text).tokens,
                                       LAMBDA t : t \in KnownTokens)[k].name]]

(***************************************************************************)
(* pythonInterop.ts: getPythonSignature, getModuleMembers, getClassMembers.*)
(* Each spawns a Python subprocess, collects its stdout, and returns a     *)
(* promise that the 'close' listener or the 2-second timer resolves.  A    *)
(* promise keeps the value of its first resolve.  The subprocess may exit  *)
(* with any code and output, or never close.                               *)
(***************************************************************************)
Null == [type |-> "null"]
Text(s) == [type |-> "string", text |-> s]
Members(names) == [type |-> "members", names |-> names]

\* What the subprocess of getPythonSignature may have written by its close
SignatureOutputs == {"", "\n", "SIG:(x)\n"}

\* What the subprocess of the two member listings may have written
MemberOutputs == {"", "[]\n", "[{\"name\": \"pi\"}]\n", "Traceback\n"}

\* The exit codes of a close event; a killed process closes with code null
ExitCodes == {"0", "1", "null"}

\* JSON.parse(output.trim()): <<>> when it throws
JSONparse(text) ==
    IF text = "[]" THEN <<Members(<<>>)>>
    ELSE IF text = "[{\"name\": \"pi\"}]" THEN <<Members(<<"pi">>)>>
    ELSE <<>>

\* resolve(v) of a promise: the first call settles it, later calls do nothing
resolveAlways(call, v) == [call EXCEPT !.resolved = <<v>>]
resolve(call, v) == IF call.resolved = <<>> THEN [call EXCEPT !.resolved = <<v>>] ELSE call

happened(call, event) == [call EXCEPT !.events = Append(@, event)]

\* new Promise(...): spawn(pythonCommand, ...) and setTimeout(..., 2000)
spawnPython(kind, venv) ==
    [NoCall EXCEPT !.kind = kind, !.venv = venv, !.python = "running", !.timer = TRUE]

getPythonSignature ==
    /\ pythonCall.kind = "none"
    /\ \E venv \in BOOLEAN : pythonCall' = spawnPython("signature", venv)
    /\ UNCHANGED <<singleVars, workspaceVars>>

getModuleMembers ==
    /\ pythonCall.kind = "none"
    /\ \E venv \in BOOLEAN : pythonCall' = spawnPython("members", venv)
    /\ UNCHANGED <<singleVars, workspaceVars>>

getClassMembers ==
    /\ pythonCall.kind = "none"
    /\ \E venv \in BOOLEAN : pythonCall' = spawnPython("classMembers", venv)
    /\ UNCHANGED <<singleVars, workspaceVars>>

\* python.on('close') of getPythonSignature: the output, or the fallback to
\* python3 when the command was the one of .venv, or null
signatureClosed(call, code, output) ==
    IF code = "0" /\ trim(output) # "" THEN resolve(call, Text(trim(output)))
    ELSE IF call.venv
    THEN [call EXCEPT !.pythonFallback = "running", !.fallbackTimer = TRUE]
    ELSE resolve(call, Null)

\* python.on('close') of getModuleMembers and getClassMembers
membersParsed(call, members) ==
    IF members # <<>> THEN resolve(call, members[1]) ELSE resolve(call, Null)

membersClosed(call, code, output) ==
    IF code = "0" /\ trim(output) # "" THEN membersParsed(call, JSONparse(trim(output)))
    ELSE resolve(call, Null)

closed(call, code, output) ==
    IF call.kind = "signature" THEN signatureClosed(call, code, output)
    ELSE membersClosed(call, code, output)

OutputsOf(kind) == IF kind = "signature" THEN SignatureOutputs ELSE MemberOutputs

\* The codes a process in state p can close with
CodesOf(p) == IF p = "killed" THEN {"null"} ELSE {"0", "1"}

\* The 'close' event of the subprocess
pythonClose ==
    /\ pythonCall.python \in {"running", "killed"}
    /\ \E code \in CodesOf(pythonCall.python), output \in OutputsOf(pythonCall.kind) :
           pythonCall' =
               closed(happened([pythonCall EXCEPT !.python = "closed"],
                               [event |-> "close", code |-> code, output |-> output]),
                      code, output)
    /\ UNCHANGED <<singleVars, workspaceVars>>

\* python.kill() on a process that is still running
kill(p) == IF p = "running" THEN "killed" ELSE p

\* The callback of setTimeout(..., 2000): python.kill(); resolve(null)
timerFires ==
    /\ pythonCall.timer
    /\ pythonCall' =
           resolve(happened([pythonCall EXCEPT !.timer = FALSE, !.python = kill(@)],
                            [event |-> "timeout"]),
                   Null)
    /\ UNCHANGED <<singleVars, workspaceVars>>

\* pythonFallback.on('close')
fallbackClosed(call, code, output) ==
    IF code = "0" /\ trim(output) # "" THEN resolve(call, Text(trim(output)))
    ELSE resolve(call, Null)

pythonFallbackClose ==
    /\ pythonCall.pythonFallback \in {"running", "killed"}
    /\ \E code \in CodesOf(pythonCall.pythonFallback), output \in SignatureOutputs :
           pythonCall' =
               fallbackClosed(happened([pythonCall EXCEPT !.pythonFallback = "closed"],
                                       [event |-> "fallbackClose", code |-> code,
                                        output |-> output]),
                              code, output)
    /\ UNCHANGED <<singleVars, workspaceVars>>

\* The callback of the fallback's setTimeout(..., 2000), which was set behind
\* the first one and with the same delay, and so fires behind it
fallbackTimerFires ==
    /\ pythonCall.fallbackTimer
    /\ ~pythonCall.timer
    /\ pythonCall' =
           resolve(happened([pythonCall EXCEPT !.fallbackTimer = FALSE,
                                               !.pythonFallback = kill(@)],
                            [event |-> "fallbackTimeout"]),
                   Null)
    /\ UNCHANGED <<singleVars, workspaceVars>>

NextCalls ==
    \/ getPythonSignature
    \/ getModuleMembers
    \/ getClassMembers
    \/ pythonClose
    \/ timerFires
    \/ pythonFallbackClose
    \/ fallbackTimerFires

SpecCalls == Init /\ [][NextCalls]_vars

\* The event loop runs the callback of every timer that is due; a subprocess
\* need not ever close
SpecCallsFair == SpecCalls /\ WF_vars(timerFires) /\ WF_vars(fallbackTimerFires)

\* Whether a close event brought output: exit code 0 and text that, for the
\* member listings, is JSON
Successful(kind, e) ==
    /\ e.code = "0"
    /\ trim(e.output) # ""
    /\ kind = "signature" \/ JSONparse(trim(e.output)) # <<>>

OutputOf(kind, e) ==
    IF kind = "signature" THEN Text(trim(e.output)) ELSE JSONparse(trim(e.output))[1]

\* Whether the event settles the call: every event does but the unsuccessful
\* close of the .venv interpreter, which hands over to python3
Settles(call, e) ==
    ~(e.event = "close" /\ call.kind = "signature" /\ call.venv
      /\ ~Successful(call.kind, e))

\* The first event of the call that settles it
FirstSettling(call) ==
    call.events[Min({k \in 1..Len(call.events) : Settles(call, call.events[k])})]

\* The output of a subprocess that closed successfully, null for anything else
ResultOf(call, e) ==
    IF e.event \in {"close", "fallbackClose"} /\ Successful(call.kind, e)
    THEN OutputOf(call.kind, e)
    ELSE Null

CallStable == pythonCall.resolved # <<>> => pythonCall'.resolved = pythonCall.resolved

C29_FallbackWitness ==
    /\ pythonCall.kind = "signature"
    /\ Len(pythonCall.events) = 3
    /\ pythonCall.events[3].event = "timeout"
    /\ pythonCall.resolved = <<Text("SIG:(x)")>>

(***************************************************************************)
(* The editor events over the documents of a workspace.  The listeners of  *)
(* activate run validateDocument on the event's document and then the one  *)
(* debounced validateDocumentEnhanced, whose timer keeps the arguments of   *)
(* its last call only.                                                     *)
(***************************************************************************)
\* An unused import and a truncating assignment; a function nested five
\* braces deep; a document with nothing to report
WorkspaceDocs ==
    {<<"py_import os", "int x = 3.5">>,
     <<"void g() {{{{{", "}}}}}", "g()">>,
     <<"println(1)">>}

\* validateDocument(document): diagnosticCollection.set(document.uri, ...)
setDiagnostics(uri, r) ==
    diagnosticsByUri' = IF r.threw THEN diagnosticsByUri
                        ELSE [diagnosticsByUri EXCEPT ![uri] = r.diagnostics]

\* validateDocumentEnhanced(document): clearTimeout, then setTimeout with
\* the arguments of this call
setTimeoutFor(uri, r) == timeoutArgs' = IF r.threw THEN timeoutArgs ELSE <<uri>>

validateThenDebounce(uri, r) == setDiagnostics(uri, r) /\ setTimeoutFor(uri, r)

\* vscode.workspace.onDidOpenTextDocument
didOpenTextDocument ==
    /\ \E uri \in Uris, doc \in WorkspaceDocs :
          /\ textDocuments[uri] = <<>>
          /\ textDocuments' = [textDocuments EXCEPT ![uri] = doc]
          /\ validateThenDebounce(uri, validateDocument(doc))
    /\ UNCHANGED <<importCacheByUri, singleVars, pythonCall>>

\* pythonProvider.clearCache(e.document), the last statement of the listener
deleteImports(uri, r) ==
    importCacheByUri' = IF r.threw THEN importCacheByUri
                        ELSE [importCacheByUri EXCEPT ![uri] = <<>>]

\* vscode.workspace.onDidChangeTextDocument
didChangeTextDocument ==
    /\ \E uri \in Uris, doc \in WorkspaceDocs :
          /\ textDocuments[uri] # <<>>
          /\ textDocuments[uri] # doc
          /\ textDocuments' = [textDocuments EXCEPT ![uri] = doc]
          /\ validateThenDebounce(uri, validateDocument(doc))
          /\ deleteImports(uri, validateDocument(doc))
    /\ UNCHANGED <<singleVars, pythonCall>>

\* vscode.window.onDidChangeActiveTextEditor
didChangeActiveTextEditor ==
    /\ \E uri \in Uris :
          /\ textDocuments[uri] # <<>>
          /\ validateThenDebounce(uri, validateDocument(textDocuments[uri]))
    /\ UNCHANGED <<textDocuments, importCacheByUri, singleVars, pythonCall>>

\* The body of validateDocumentEnhanced for the document of uri
enhanceDocument(uri, doc, r, imports) ==
    IF r.threw THEN UNCHANGED <<diagnosticsByUri, importCacheByUri>>
    ELSE /\ importCacheByUri' = [importCacheByUri EXCEPT ![uri] = <<imports>>]
         /\ diagnosticsByUri' =
               [diagnosticsByUri EXCEPT
                   ![uri] = r.diagnostics \o createPythonInteropDiagnostics(doc, imports)
                                          \o createMetricsDiagnostics(doc)]

\* The timer of debounce fires, 500 ms after the last call: func(...args)
debouncedTimerFires ==
    /\ timeoutArgs # <<>>
    /\ timeoutArgs' = <<>>
    /\ enhanceDocument(timeoutArgs[1], textDocuments[timeoutArgs[1]],
                       validateDocument(textDocuments[timeoutArgs[1]]),
                       getImports(textDocuments[timeoutArgs[1]],
                                  importCacheByUri[timeoutArgs[1]]))
    /\ UNCHANGED <<textDocuments, singleVars, pythonCall>>

NextWorkspace ==
    \/ didOpenTextDocument
    \/ didChangeTextDocument
    \/ didChangeActiveTextEditor
    \/ debouncedTimerFires

SpecWorkspace == Init /\ [][NextWorkspace]_vars

OpenUris == {uri \in Uris : textDocuments[uri] # <<>>}

\* C30: once the events have stopped and no timer is left, every document a
\* validation was triggered for has its full set published, the core
\* diagnostics followed by the Python interop and metrics ones: the enhanced
\* validation pending for one document is not lost to a trigger for another.
C30_EveryDocumentEnhanced ==
    timeoutArgs = <<>> =>
        \A uri \in OpenUris :
            diagnosticsByUri[uri] = EnhancedDiagnostics(textDocuments[uri])

\* What holds: with no timer left, every open document has the core
\* diagnostics of its text published, with or without the rest behind them
C30_EveryDocumentValidated ==
    timeoutArgs = <<>> =>
        \A uri \in OpenUris :
            diagnosticsByUri[uri] \in {CoreDiagnostics(textDocuments[uri]),
                                       EnhancedDiagnostics(textDocuments[uri])}

\* What holds: a workspace of one document has the full set published
C30_OneDocumentEnhanced ==
    (timeoutArgs = <<>> /\ Cardinality(OpenUris) = 1) =>
        \A uri \in OpenUris :
            diagnosticsByUri[uri] = EnhancedDiagnostics(textDocuments[uri])
====
